---- MODULE Spec2Model ----
(***************************************************************************)
(* The agent router of the HELIX chat application (src/unnamed/part_007):  *)
(* classifyIntent -> extract*Parameters -> call*Service ->                 *)
(* synthesizeResponse, sequenced by the agent.query mutation.              *)
(*                                                                         *)
(* Representation of JavaScript values.                                    *)
(*  - A text the program scans (the query, the completion reply that is    *)
(*    parsed as JSON, a string inside the ParameterSet) is a sequence of   *)
(*    one-character strings.                                               *)
(*  - A text the program only copies or concatenates (a response message,  *)
(*    a URL, a string inside a prediction body) is a TLA+ string.          *)
(*  - A JSON / JavaScript value is a record tagged by its field t:         *)
(*    "undefined", "null", "bool" (b), "num" (m, e: the number m / 10^e),  *)
(*    "str" (s) and "obj" (f: the function from the own enumerable keys    *)
(*    to their values).                                                    *)
(*  - A confidence is the exact quotient n/d of two small naturals; the    *)
(*    code's IEEE doubles of such quotients are ordered and equal exactly  *)
(*    as the quotients are.                                                *)
(***************************************************************************)
EXTENDS Integers, Sequences, FiniteSets, TLC

(***************************************************************************)
(* Bounds of the model.                                                    *)
(***************************************************************************)
\* number of words of a query drawn in Init
MaxWords == 2
\* largest reading of the clock (Date.now())
MaxClock == 1

(***************************************************************************)
(* Strings                                                                 *)
(***************************************************************************)
UpperAlpha ==
  <<"A","B","C","D","E","F","G","H","I","J","K","L","M","N","O","P","Q","R","S","T","U","V","W","X","Y","Z">>

LowerAlpha ==
  <<"a","b","c","d","e","f","g","h","i","j","k","l","m","n","o","p","q","r","s","t","u","v","w","x","y","z">>

Digits == {"0","1","2","3","4","5","6","7","8","9"}

\* String.prototype.toLowerCase, one character
LowerChar(ch) ==
  IF \E i \in 1..26 : UpperAlpha[i] = ch
    THEN LowerAlpha[CHOOSE i \in 1..26 : UpperAlpha[i] = ch]
    ELSE ch

\* String.prototype.toUpperCase, one character
UpperChar(ch) ==
  IF \E i \in 1..26 : LowerAlpha[i] = ch
    THEN UpperAlpha[CHOOSE i \in 1..26 : LowerAlpha[i] = ch]
    ELSE ch

toLowerCase(s) == [i \in 1..Len(s) |-> LowerChar(s[i])]

toUpperCase(s) == [i \in 1..Len(s) |-> UpperChar(s[i])]

\* s.startsWith(p) at offset i (0-based): p occurs in s at i
OccursAt(s, p, i) ==
  /\ i + Len(p) <= Len(s)
  /\ \A k \in 1..Len(p) : s[i + k] = p[k]

\* String.prototype.includes
includes(s, sub) == \E i \in 0..(Len(s) - Len(sub)) : OccursAt(s, sub, i)

startsWith(s, p) == OccursAt(s, p, 0)

\* the words of ws joined by single spaces
RECURSIVE Join(_)
Join(ws) ==
  IF ws = <<>> THEN <<>>
  ELSE IF Len(ws) = 1 THEN ws[1]
  ELSE ws[1] \o <<" ">> \o Join(Tail(ws))

(***************************************************************************)
(* classifyIntent (part_007:29-60)                                         *)
(***************************************************************************)
covidKeywords ==
  << <<"c","o","v","i","d">>,
     <<"c","o","r","o","n","a","v","i","r","u","s">>,
     <<"p","a","n","d","e","m","i","c">>,
     <<"v","i","r","u","s">>,
     <<"i","n","f","e","c","t","i","o","n">>,
     <<"c","a","s","e","s">>,
     <<"d","e","a","t","h","s">>,
     <<"v","a","c","c","i","n","a","t","i","o","n">>,
     <<"t","e","s","t","i","n","g">>,
     <<"o","u","t","b","r","e","a","k">>,
     <<"e","p","i","d","e","m","i","c">>,
     <<"d","i","s","e","a","s","e">>,
     <<"h","e","a","l","t","h">>,
     <<"c","o","u","n","t","r","y">>,
     <<"s","p","r","e","a","d">> >>

churnKeywords ==
  << <<"c","h","u","r","n">>,
     <<"c","u","s","t","o","m","e","r">>,
     <<"l","e","a","v","e">>,
     <<"c","a","n","c","e","l">>,
     <<"s","u","b","s","c","r","i","p","t","i","o","n">>,
     <<"b","i","l","l","i","n","g">>,
     <<"s","e","r","v","i","c","e">>,
     <<"c","o","m","p","l","a","i","n","t">>,
     <<"s","u","p","p","o","r","t">>,
     <<"c","o","n","t","r","a","c","t">>,
     <<"r","e","t","e","n","t","i","o","n">>,
     <<"l","o","y","a","l","t","y">>,
     <<"t","e","l","e","c","o","m">>,
     <<"i","n","t","e","r","n","e","t">>,
     <<"p","h","o","n","e">> >>

\* keywords.filter(kw => queryLower.includes(kw)).length
CountMatches(keywords, queryLower) ==
  Len(SelectSeq(keywords, LAMBDA kw : includes(queryLower, kw)))

\* a quotient of two doubles with small integer values
Quot(n, d) == [n |-> n, d |-> d]

RatLt(a, b) == a.n * b.d < b.n * a.d

\* Math.min(x, 1.0)
MinOne(x) == IF RatLt(Quot(1, 1), x) THEN Quot(1, 1) ELSE x

\* classifyCounts with the first comparison of the counts not strict
classifyCountsTie(covidMatches, churnMatches) ==
  IF covidMatches >= churnMatches /\ covidMatches > 0
    THEN [intent |-> "covid",
          confidence |-> MinOne(Quot(covidMatches, covidMatches + churnMatches + 1))]
  ELSE IF churnMatches > 0
    THEN [intent |-> "churn",
          confidence |-> MinOne(Quot(churnMatches, covidMatches + churnMatches + 1))]
  ELSE [intent |-> "unknown", confidence |-> Quot(0, 1)]

\* classifyCounts with the churn branch dividing by the sum of the counts,
\* without the 1
classifyCountsUnsmoothed(covidMatches, churnMatches) ==
  IF covidMatches > churnMatches /\ covidMatches > 0
    THEN [intent |-> "covid",
          confidence |-> MinOne(Quot(covidMatches, covidMatches + churnMatches + 1))]
  ELSE IF churnMatches > 0
    THEN [intent |-> "churn",
          confidence |-> MinOne(Quot(churnMatches, covidMatches + churnMatches))]
  ELSE [intent |-> "unknown", confidence |-> Quot(0, 1)]

\* part_007:47-59, the decision on the two counts
classifyCounts(covidMatches, churnMatches) ==
  IF covidMatches > churnMatches /\ covidMatches > 0
    THEN [intent |-> "covid",
          confidence |-> MinOne(Quot(covidMatches, covidMatches + churnMatches + 1))]
  ELSE IF churnMatches > 0
    THEN [intent |-> "churn",
          confidence |-> MinOne(Quot(churnMatches, covidMatches + churnMatches + 1))]
  ELSE [intent |-> "unknown", confidence |-> Quot(0, 1)]

classifyIntent(q) ==
  LET queryLower == toLowerCase(q)
      covidMatches == CountMatches(covidKeywords, queryLower)
      churnMatches == CountMatches(churnKeywords, queryLower)
  IN  classifyCounts(covidMatches, churnMatches)

(***************************************************************************)
(* JavaScript values                                                       *)
(***************************************************************************)
Undefined == [t |-> "undefined"]

Null == [t |-> "null"]

Bool(b) == [t |-> "bool", b |-> b]

\* the number m / 10^e
Num(m, e) == [t |-> "num", m |-> m, e |-> e]

Str(s) == [t |-> "str", s |-> s]

Obj(f) == [t |-> "obj", f |-> f]

EmptyMap == [k \in {} |-> Undefined]

\* !v is true
Falsy(v) ==
  \/ v.t \in {"undefined", "null"}
  \/ v.t = "bool" /\ ~v.b
  \/ v.t = "num" /\ v.m = 0
  \/ v.t = "str" /\ Len(v.s) = 0

\* v.k does not throw a TypeError
CanGet(v) == v.t \notin {"undefined", "null"}

\* v.k, for a key k that no prototype defines
Get(v, k) == IF v.t = "obj" /\ k \in DOMAIN v.f THEN v.f[k] ELSE Undefined

\* v.k = x does not throw (module code is strict: assigning a property of a
\* primitive throws a TypeError)
CanSet(v) == v.t = "obj"

Set(v, k, x) == [v EXCEPT !.f = (k :> x) @@ v.f]

\* ('k' in v) does not throw a TypeError
CanIn(v) == v.t = "obj"

In(k, v) == k \in DOMAIN v.f

\* Object.keys(v).length, for v neither null nor undefined
KeyCount(v) ==
  IF v.t = "obj" THEN Cardinality(DOMAIN v.f)
  ELSE IF v.t = "str" THEN Len(v.s)
  ELSE 0

(***************************************************************************)
(* Regular expressions of the extractors                                   *)
(***************************************************************************)
IsSpace(ch) == ch \in {" ", "\n", "\t", "\r"}

IsDigit(ch) == ch \in Digits

\* \w
IsWordChar(ch) ==
  \/ ch \in Digits
  \/ ch = "_"
  \/ \E i \in 1..26 : UpperAlpha[i] = ch \/ LowerAlpha[i] = ch

Least(S) == CHOOSE x \in S : \A y \in S : x <= y

\* \b at offset i of s
WordBoundary(s, i) ==
  LET WordAt(k) == k \in 1..Len(s) /\ IsWordChar(s[k])
  IN  WordAt(i) # WordAt(i + 1)

\* the offset where the run of digits that starts at offset i ends (\d*)
DigitRunEnd(s, i) == Least({j \in i..Len(s) : j = Len(s) \/ ~IsDigit(s[j + 1])})

\* the offset where the run of white space that starts at offset i ends (\s*)
SpaceRunEnd(s, i) == Least({j \in i..Len(s) : j = Len(s) \/ ~IsSpace(s[j + 1])})

NoMatch == [found |-> FALSE]

countryAliases ==
  << <<"U","S","A">>,
     <<"U","S">>,
     <<"U","n","i","t","e","d"," ","S","t","a","t","e","s">>,
     <<"A","m","e","r","i","c","a">>,
     <<"I","n","d","i","a">>,
     <<"C","h","i","n","a">>,
     <<"B","r","a","z","i","l">>,
     <<"U","K">>,
     <<"U","n","i","t","e","d"," ","K","i","n","g","d","o","m">>,
     <<"C","a","n","a","d","a">>,
     <<"A","u","s","t","r","a","l","i","a">>,
     <<"G","e","r","m","a","n","y">>,
     <<"F","r","a","n","c","e">>,
     <<"I","t","a","l","y">>,
     <<"S","p","a","i","n">>,
     <<"J","a","p","a","n">>,
     <<"R","u","s","s","i","a">> >>

\* the pattern without its two \b: an alias inside a longer word matches
AliasAtAnywhere(q, k, i) == OccursAt(toLowerCase(q), toLowerCase(countryAliases[k]), i)

\* \b(alias)\b matches at offset i, ignoring case
AliasAt(q, k, i) ==
  /\ WordBoundary(q, i)
  /\ OccursAt(toLowerCase(q), toLowerCase(countryAliases[k]), i)
  /\ WordBoundary(q, i + Len(countryAliases[k]))

\* query.match(/\b(USA|US|...|Russia)\b/i): the leftmost offset where an
\* alternative matches and there the first alternative that does
countryMatch(q) ==
  LET hits == {i \in 0..Len(q) : \E k \in 1..Len(countryAliases) : AliasAt(q, k, i)}
  IN  IF hits = {} THEN NoMatch
      ELSE LET i == Least(hits)
               k == Least({a \in 1..Len(countryAliases) : AliasAt(q, a, i)})
           IN  [found |-> TRUE, g1 |-> SubSeq(q, i + 1, i + Len(countryAliases[k]))]

tenureUnits == << <<"m","o","n","t","h">>, <<"m","o","n","t","h","s">>, <<"m","o">> >>

\* (\d+)\s*(month|months|mo) matches at offset i, ignoring case. \d+ and \s*
\* are greedy and giving back a digit or a blank never lets the rest match,
\* so the digits are the whole run.
TenureAt(q, i) ==
  /\ i < Len(q)
  /\ IsDigit(q[i + 1])
  /\ \E u \in 1..Len(tenureUnits) :
        OccursAt(toLowerCase(q), tenureUnits[u], SpaceRunEnd(q, DigitRunEnd(q, i)))

\* query.match(/(\d+)\s*(month|months|mo)/i)
tenureMatch(q) ==
  LET hits == {i \in 0..Len(q) : TenureAt(q, i)}
  IN  IF hits = {} THEN NoMatch
      ELSE LET i == Least(hits)
           IN  [found |-> TRUE, g1 |-> SubSeq(q, i + 1, DigitRunEnd(q, i))]

\* \d+(?:\.\d+)? from offset d, where q[d+1] is a digit: the offset it ends
DecimalEnd(q, d) ==
  LET j == DigitRunEnd(q, d)
  IN  IF j + 2 <= Len(q) /\ q[j + 1] = "." /\ IsDigit(q[j + 2])
        THEN DigitRunEnd(q, j + 1)
        ELSE j

\* the pattern with the dollar sign required: /\$(\d+(?:\.\d+)?)/
ChargesAtDollar(q, i) ==
  i + 2 <= Len(q) /\ q[i + 1] = "$" /\ IsDigit(q[i + 2])

\* \$?(\d+(?:\.\d+)?) matches at offset i
ChargesAt(q, i) ==
  /\ i < Len(q)
  /\ \/ IsDigit(q[i + 1])
     \/ q[i + 1] = "$" /\ i + 2 <= Len(q) /\ IsDigit(q[i + 2])

\* query.match(/\$?(\d+(?:\.\d+)?)/)
chargesMatch(q) ==
  LET hits == {i \in 0..Len(q) : ChargesAt(q, i)}
  IN  IF hits = {} THEN NoMatch
      ELSE LET i == Least(hits)
               d == IF q[i + 1] = "$" THEN i + 1 ELSE i
           IN  [found |-> TRUE, g1 |-> SubSeq(q, d + 1, DecimalEnd(q, d))]

chargesUnits ==
  << <<"m","o","n","t","h","l","y">>,
     <<"p","e","r"," ","m","o","n","t","h">>,
     <<"/","m","o","n","t","h">> >>

\* query.match(/\$?(\d+(?:\.\d+)?)\s*(monthly|per month|\/month)?/i): the
\* trailing group is optional, so the match starts where chargesMatch starts
\* and has the same first group; g2 is the unit found after it, if any
chargesMatchUnit(q) ==
  LET m == chargesMatch(q)
  IN  IF ~m.found THEN NoMatch
      ELSE LET i == Least({h \in 0..Len(q) : ChargesAt(q, h)})
               d == IF q[i + 1] = "$" THEN i + 1 ELSE i
               k == SpaceRunEnd(q, DecimalEnd(q, d))
               us == {u \in 1..Len(chargesUnits) : OccursAt(toLowerCase(q), chargesUnits[u], k)}
           IN  [found |-> TRUE, g1 |-> m.g1,
                g2 |-> IF us = {} THEN <<>> ELSE chargesUnits[Least(us)]]

DigitValue(ch) == CHOOSE n \in 0..9 : ToString(n) = ch

\* the value of a run of decimal digits
RECURSIVE DigitsValue(_)
DigitsValue(ds) ==
  IF ds = <<>> THEN 0
  ELSE 10 * DigitsValue(SubSeq(ds, 1, Len(ds) - 1)) + DigitValue(ds[Len(ds)])

\* m / 10^e without trailing zeros of the fraction
RECURSIVE Canonical(_, _)
Canonical(m, e) ==
  IF e > 0 /\ m % 10 = 0 THEN Canonical(m \div 10, e - 1) ELSE Num(m, e)

\* parseInt of a run of digits
parseInt(ds) == Num(DigitsValue(ds), 0)

\* parseFloat of digits with an optional fraction
parseFloat(ds) ==
  LET dots == {i \in 1..Len(ds) : ds[i] = "."}
  IN  IF dots = {} THEN Num(DigitsValue(ds), 0)
      ELSE LET p == Least(dots)
               whole == SubSeq(ds, 1, p - 1)
               frac == SubSeq(ds, p + 1, Len(ds))
           IN  Canonical(DigitsValue(whole \o frac), Len(frac))

(***************************************************************************)
(* cleanJsonResponse (part_007:65-74) and JSON.parse                       *)
(***************************************************************************)
\* String.prototype.trim
trim(s) ==
  LET a == SpaceRunEnd(s, 0)
      b == IF a = Len(s) THEN a
           ELSE CHOOSE j \in 1..Len(s) :
                  ~IsSpace(s[j]) /\ \A k \in (j + 1)..Len(s) : IsSpace(s[k])
  IN  SubSeq(s, a + 1, b)

\* the grave accent U+0060, which a TLA+ string cannot contain
Backtick == "[grave]"

fence == <<Backtick, Backtick, Backtick>>

fenceJson == fence \o <<"j","s","o","n">>

\* s.replace(/^<opening>\s*/, '') for an s that starts with opening
StripOpening(s, opening) == SubSeq(s, SpaceRunEnd(s, Len(opening)) + 1, Len(s))

\* s.replace(/\s*<fence>$/, ''): the leftmost match is the white space before a
\* fence that ends s, together with that fence
StripClosing(s) ==
  IF Len(s) >= 3 /\ OccursAt(s, fence, Len(s) - 3)
    THEN LET e == Len(s) - 3
             i == Least({j \in 0..e : \A k \in (j + 1)..e : IsSpace(s[k])})
         IN  SubSeq(s, 1, i)
    ELSE s

\* only the tagged opening marker is recognised
cleanJsonResponseTagOnly(content) ==
  LET cleaned == trim(content)
  IN  IF startsWith(cleaned, fenceJson)
        THEN trim(StripClosing(StripOpening(cleaned, fenceJson)))
      ELSE trim(cleaned)

cleanJsonResponse(content) ==
  LET cleaned == trim(content)
  IN  IF startsWith(cleaned, fenceJson)
        THEN trim(StripClosing(StripOpening(cleaned, fenceJson)))
      ELSE IF startsWith(cleaned, fence)
        THEN trim(StripClosing(StripOpening(cleaned, fence)))
      ELSE trim(cleaned)

\* the JSON texts the completion service sends in this model (objects, null,
\* a string and a number), each with the
\* value JSON.parse gives it; JSON.parse throws a SyntaxError on other texts
JSONTable ==
  << [text |-> <<"{","}">>,
      value |-> Obj(EmptyMap)],
     [text |-> <<"{","\"","c","o","u","n","t","r","y","_","n","a","m","e","\"",":","\"","F","r","a","n","c","e","\"","}">>,
      value |-> Obj("country_name" :> Str(<<"F","r","a","n","c","e">>))],
     [text |-> <<"{","\"","c","o","u","n","t","r","y","_","n","a","m","e","\"",":","n","u","l","l","}">>,
      value |-> Obj("country_name" :> Null)],
     [text |-> <<"{","\"","c","o","u","n","t","r","y","_","n","a","m","e","\"",":","\"","n","u","l","l","\"","}">>,
      value |-> Obj("country_name" :> Str(<<"n","u","l","l">>))],
     [text |-> <<"{","\"","d","e","a","t","h","s","\"",":","5","}">>,
      value |-> Obj("deaths" :> Num(5, 0))],
     [text |-> <<"{","\"","t","e","n","u","r","e","_","m","o","n","t","h","s","\"",":","0","}">>,
      value |-> Obj("tenure_months" :> Num(0, 0))],
     [text |-> <<"{","\"","c","u","s","t","o","m","e","r","_","i","d","\"",":","\"","C","4","2","\"",",","\"","m","o","n","t","h","l","y","_","c","h","a","r","g","e","s","\"",":","7","0",".","5","}">>,
      value |-> Obj(("customer_id" :> Str(<<"C","4","2">>)) @@ ("monthly_charges" :> Num(705, 1)))],
     [text |-> <<"{","\"","c","u","s","t","o","m","e","r","_","i","d","\"",":","n","u","l","l",",","\"","t","e","n","u","r","e","_","m","o","n","t","h","s","\"",":","2","4","}">>,
      value |-> Obj(("customer_id" :> Null) @@ ("tenure_months" :> Num(24, 0)))],
     [text |-> <<"n","u","l","l">>,
      value |-> Null],
     [text |-> <<"\"","n","/","a","\"">>,
      value |-> Str(<<"n","/","a">>)],
     [text |-> <<"7">>,
      value |-> Num(7, 0)],
     [text |-> <<"{","\"","c","u","s","t","o","m","e","r","_","i","d","\"",":","\"","C","4","2","\"",",","\"","t","e","n","u","r","e","_","m","o","n","t","h","s","\"",":","0","}">>,
      value |-> Obj(("customer_id" :> Str(<<"C","4","2">>)) @@ ("tenure_months" :> Num(0, 0)))] >>

JSONParse(text) ==
  LET rows == {i \in 1..Len(JSONTable) : JSONTable[i].text = text}
  IN  IF rows = {} THEN [ok |-> FALSE]
      ELSE [ok |-> TRUE, v |-> JSONTable[Least(rows)].value]

(***************************************************************************)
(* The completion service (invokeLLM) as the extractors see it             *)
(***************************************************************************)
\* invokeLLM rejects
LLMThrow == [kind |-> "throw"]

\* response.choices?.[0]?.message?.content is not a string
LLMNoContent == [kind |-> "nocontent"]

LLMContent(c) == [kind |-> "content", content |-> c]

\* const content = typeof messageContent === 'string' ? messageContent : '{}'
ContentOrEmptyObject(reply) ==
  IF reply.kind = "content" THEN reply.content ELSE <<"{","}">>

(***************************************************************************)
(* extractCovidParameters (part_007:79-132)                                *)
(***************************************************************************)
\* the catch block, part_007:126-131
extractCovidCatch(q) ==
  LET countryMatchResult == countryMatch(q)
  IN  IF countryMatchResult.found
        THEN Obj("country_name" :> Str(countryMatchResult.g1))
        ELSE Obj(EmptyMap)

extractCovidParameters(q, reply) ==
  IF reply.kind = "throw" THEN extractCovidCatch(q)
  ELSE LET parsed == JSONParse(cleanJsonResponse(ContentOrEmptyObject(reply)))
       IN  IF ~parsed.ok THEN extractCovidCatch(q)
           ELSE LET params == parsed.v
                IN  IF ~CanGet(params) THEN extractCovidCatch(q)
                    ELSE IF \/ Falsy(Get(params, "country_name"))
                            \/ Get(params, "country_name") = Str(<<"n","u","l","l">>)
                      THEN LET m == countryMatch(q)
                           IN  IF ~m.found THEN params
                               ELSE IF CanSet(params)
                                 THEN Set(params, "country_name", Str(m.g1))
                                 ELSE extractCovidCatch(q)
                    ELSE params

(***************************************************************************)
(* extractChurnParameters (part_007:137-208)                               *)
(***************************************************************************)
\* the catch branch without the pattern matching: it returns {} (as the
\* catch of the extractor without fallback does)
extractChurnCatchEmpty(q) == Obj(EmptyMap)

\* the catch branch with the tenure pattern only
extractChurnCatchTenureOnly(q) ==
  LET tenure == tenureMatch(q)
  IN  IF tenure.found
        THEN Set(Obj(EmptyMap), "tenure_months", parseInt(tenure.g1))
        ELSE Obj(EmptyMap)

\* the catch block, part_007:194-207
extractChurnCatch(q) ==
  LET tenure == tenureMatch(q)
      charges == chargesMatch(q)
      p1 == IF tenure.found
              THEN Set(Obj(EmptyMap), "tenure_months", parseInt(tenure.g1))
              ELSE Obj(EmptyMap)
  IN  IF charges.found
        THEN Set(p1, "monthly_charges", parseFloat(charges.g1))
        ELSE p1

\* part_007:179-193, for a parsed value whose properties can be read
extractChurnFill(q, params) ==
  LET tenure == tenureMatch(q)
      charges == chargesMatchUnit(q)
      setTenure == Falsy(Get(params, "tenure_months")) /\ tenure.found
  IN  IF setTenure /\ ~CanSet(params) THEN extractChurnCatch(q)
      ELSE LET p1 == IF setTenure
                       THEN Set(params, "tenure_months", parseInt(tenure.g1))
                       ELSE params
               setCharges == Falsy(Get(p1, "monthly_charges")) /\ charges.found
           IN  IF setCharges /\ ~CanSet(p1) THEN extractChurnCatch(q)
               ELSE IF setCharges
                 THEN Set(p1, "monthly_charges", parseFloat(charges.g1))
               ELSE p1

extractChurnParameters(q, reply) ==
  IF reply.kind = "throw" THEN extractChurnCatch(q)
  ELSE LET parsed == JSONParse(cleanJsonResponse(ContentOrEmptyObject(reply)))
       IN  IF ~parsed.ok THEN extractChurnCatch(q)
           ELSE IF ~CanGet(parsed.v) THEN extractChurnCatch(q)
           ELSE extractChurnFill(q, parsed.v)

(***************************************************************************)
(* The prediction services (part_007:213-240)                              *)
(***************************************************************************)
\* process.env, read at call time; "" stands for a variable that is unset
Envs ==
  { [COVID_SERVICE_URL |-> "http://covid-service:8000", CHURN_SERVICE_URL |-> ""] }

\* process.env.COVID_SERVICE_URL || 'http://localhost:8000'
covidServiceUrl(e) ==
  IF e.COVID_SERVICE_URL = "" THEN "http://localhost:8000" ELSE e.COVID_SERVICE_URL

\* process.env.CHURN_SERVICE_URL || 'http://localhost:8001'
churnServiceUrl(e) ==
  IF e.CHURN_SERVICE_URL = "" THEN "http://localhost:8001" ELSE e.CHURN_SERVICE_URL

\* the outcome of a call that has not returned yet
Pending == [kind |-> "pending"]

\* axios.post(url, parameters, { timeout: 30000 })
PostCall(url, parameters) ==
  [api |-> "axios.post", url |-> url, data |-> parameters, timeout |-> 30000,
   outcome |-> Pending]

\* postFor with the churn service called for both intents
postForChurnOnly(i, e, parameters) ==
  PostCall(churnServiceUrl(e) \o "/predict/churn", parameters)

\* callCovidService / callChurnService up to the await
postFor(i, e, parameters) ==
  IF i = "covid"
    THEN PostCall(covidServiceUrl(e) \o "/predict/covid", parameters)
    ELSE PostCall(churnServiceUrl(e) \o "/predict/churn", parameters)

\* axios resolves on a 2xx status and rejects otherwise
PostResolves(outcome) ==
  outcome.kind = "response" /\ outcome.status >= 200 /\ outcome.status < 300

covidError == Obj("error" :> Str("Failed to get COVID prediction"))

churnError == Obj("error" :> Str("Failed to get churn prediction"))

\* predictionOf taking every response for a success, whatever its status
predictionOfAnyStatus(i, outcome) ==
  IF outcome.kind = "response" THEN outcome.data
  ELSE IF i = "covid" THEN covidError
  ELSE churnError

\* callCovidService / callChurnService after the await: response.data, or
\* the catch block
predictionOf(i, outcome) ==
  IF PostResolves(outcome) THEN outcome.data
  ELSE IF i = "covid" THEN covidError
  ELSE churnError

\* the bodies a prediction service is modelled to send
PredictionBodies ==
  { Obj("risk_score" :> Num(42, 2)),
    Obj("error" :> Str("model not loaded")),
    Obj(("error" :> Null) @@ ("risk_score" :> Num(42, 2))),
    Null,
    Str("") }

\* what can come of one POST
PostOutcomes ==
  { [kind |-> "networkError"],
    [kind |-> "timeout"],
    [kind |-> "response", status |-> 500,
     data |-> Obj("detail" :> Str("Internal Server Error"))] }
  \cup { [kind |-> "response", status |-> 200, data |-> b] : b \in PredictionBodies }

(***************************************************************************)
(* synthesizeResponse (part_007:245-277)                                   *)
(***************************************************************************)
\* the string a template literal makes of a value (of the values that the
\* bodies of PredictionBodies hold under a key)
JSString(v) ==
  CASE v.t = "str" -> v.s
    [] v.t = "null" -> "null"
    [] v.t = "undefined" -> "undefined"
    [] v.t = "bool" -> IF v.b THEN "true" ELSE "false"
    [] v.t = "num" /\ v.e = 0 -> ToString(v.m)
    [] v.t = "obj" -> "[object Object]"

\* hasError testing the value of the key: prediction.error is truthy
hasErrorTruthy(p) == ~Falsy(Get(p, "error"))

\* line 249 left out: every prediction goes to the completion service
hasErrorNever(p) == FALSE

\* 'error' in prediction
hasError(p) == In("error", p)

errorResponse(p) == "I encountered an error: " \o JSString(Get(p, "error"))

\* the replies of the completion service to the synthesis prompt
SynthReplies ==
  { LLMThrow, LLMNoContent, LLMContent("The risk is moderate.") }

\* the two fixed texts of lines 272 and 275 exchanged
synthesizedTextSwapped(reply) ==
  IF reply.kind = "throw" THEN "Unable to synthesize response"
  ELSE IF reply.kind = "content" THEN reply.content
  ELSE "I encountered an error while processing your request."

\* part_007:271-276
synthesizedText(reply) ==
  IF reply.kind = "throw" THEN "I encountered an error while processing your request."
  ELSE IF reply.kind = "content" THEN reply.content
  ELSE "Unable to synthesize response"

LLMCall(by) == [api |-> "invokeLLM", by |-> by, outcome |-> Pending]

(***************************************************************************)
(* agent.query (part_007:284-350)                                          *)
(***************************************************************************)
\* the threshold of line 292 a little higher, 0.35
ThresholdRaised == Quot(35, 100)

Threshold == Quot(3, 10)

\* needsClarification with the threshold 0.6
needsClarificationHigh(i, c) == i = "unknown" \/ RatLt(c, Quot(6, 10))

\* intent === 'unknown' || confidence < 0.3
needsClarification(i, c) == i = "unknown" \/ RatLt(c, Threshold)

AgentResponse(text, i, c) ==
  [t |-> "AgentResponse", response |-> text, intent |-> i, confidence |-> c]

clarifyResponse ==
  AgentResponse("I'm not sure if you're asking about COVID-19 or customer churn. Could you please clarify?",
                "unknown", Quot(0, 1))

needMoreCovid ==
  "I need at least some information to make a COVID-19 prediction. Please provide country name or case statistics."

needMoreChurn ==
  "I need at least some information about the customer to assess churn risk. Please provide details like tenure, monthly charges, or contract type."

\* needMoreResponse with the intent and confidence of clarifyResponse
needMoreResponseReset(i, c) ==
  AgentResponse(IF i = "covid" THEN needMoreCovid ELSE needMoreChurn,
                "unknown", Quot(0, 1))

needMoreResponse(i, c) ==
  AgentResponse(IF i = "covid" THEN needMoreCovid ELSE needMoreChurn, i, c)

\* isEmptyParameters without the test of the keys
isEmptyParametersNullOnly(p) == Falsy(p)

\* !parameters || Object.keys(parameters).length === 0
isEmptyParameters(p) == Falsy(p) \/ KeyCount(p) = 0

\* the decimal digits of a natural number, as `${n}` writes them
RECURSIVE NumberChars(_)
NumberChars(n) ==
  IF n < 10 THEN <<ToString(n)>>
  ELSE NumberChars(n \div 10) \o <<ToString(n % 10)>>

\* part_007:312-315 and 326-329; t is the reading of Date.now()
withDefaults(i, p, t) ==
  IF i = "covid"
    THEN IF In("country_name", p) THEN p
         ELSE Set(p, "country_name", Str(<<"U","n","k","n","o","w","n">>))
    ELSE IF In("customer_id", p) THEN p
         ELSE Set(p, "customer_id", Str(<<"G","U","E","S","T","_">> \o NumberChars(t)))

\* modelLabel with the two labels exchanged
modelLabelSwapped(i) ==
  IF i = "covid" THEN "Churn Prediction Model" ELSE "COVID-19 Prediction Model"

modelLabel(i) ==
  IF i = "covid" THEN "COVID-19 Prediction Model" ELSE "Churn Prediction Model"

\* part_007:343-349
finalResponse(text, i, c, p) ==
  [t |-> "AgentResponse", response |-> text, intent |-> i, confidence |-> c,
   modelUsed |-> modelLabel(i), rawPrediction |-> p]

\* what the caller gets when the handler throws
Exception(name) == [t |-> "exception", name |-> name]

NoResult == [t |-> "none"]

(***************************************************************************)
(* Inputs                                                                  *)
(***************************************************************************)
\* the words that queries are made of
Vocabulary ==
  << <<"c","o","v","i","d">>,
     <<"C","o","r","o","n","a","v","i","r","u","s">>,
     <<"c","u","s","t","o","m","e","r">>,
     <<"U","S","A">>,
     <<"1","2","m","o">>,
     <<"$","8","5",".","5">> >>

\* the queries of at most n different words
QueriesOf(n) ==
  { Join([i \in 1..Len(ws) |-> Vocabulary[ws[i]]]) :
      ws \in { w \in UNION { [1..k -> 1..Len(Vocabulary)] : k \in 1..n } :
                \A i, j \in 1..Len(w) : w[i] = w[j] => i = j } }

Queries == QueriesOf(MaxWords)

\* the replies of the completion service to an extraction prompt
ExtractReplies ==
  { LLMThrow, LLMNoContent }
  \cup { LLMContent(JSONTable[i].text) : i \in 1..Len(JSONTable) }
  \cup { LLMContent(<<"S","o","r","r","y">>),
         LLMContent(<<" ","{","}","\n">>),
         LLMContent(fenceJson \o <<"\n">> \o JSONTable[5].text \o <<"\n">> \o fence),
         LLMContent(fence \o JSONTable[7].text \o fence \o <<"\n">>) }

(***************************************************************************)
(* The chat page (client/src/pages/GeminiAgent.tsx)                        *)
(***************************************************************************)
\* the message the page opens with
greeting ==
  [role |-> "assistant",
   content |-> <<"H","e","l","l","o","!"," ","I","'","m"," ","H","e","l","i","x","!"," ","I"," ","c","a","n"," ","h","e","l","p"," ","y","o","u"," ","w","i","t","h"," ","C","O","V","I","D","-","1","9"," ","p","r","e","d","i","c","t","i","o","n","s"," ","o","r"," ","c","u","s","t","o","m","e","r"," ","c","h","u","r","n"," ","a","n","a","l","y","s","i","s","."," ","W","h","a","t"," ","w","o","u","l","d"," ","y","o","u"," ","l","i","k","e"," ","t","o"," ","k","n","o","w","?">>]

\* the content of the assistant message of the catch branch
apology ==
  <<"S","o","r","r","y",","," ","I"," ","e","n","c","o","u","n","t","e","r","e","d"," ","a","n"," ","e","r","r","o","r"," ","p","r","o","c","e","s","s","i","n","g"," ","y","o","u","r"," ","r","e","q","u","e","s","t","."," ","P","l","e","a","s","e"," ","t","r","y"," ","a","g","a","i","n",".">>

exampleQueries ==
  << <<"W","h","a","t","'","s"," ","t","h","e"," ","C","O","V","I","D","-","1","9"," ","s","i","t","u","a","t","i","o","n"," ","i","n"," ","t","h","e"," ","U","n","i","t","e","d"," ","S","t","a","t","e","s","?">>,
     <<"I","s"," ","c","u","s","t","o","m","e","r"," ","C","U","S","T","_","0","0","1"," ","l","i","k","e","l","y"," ","t","o"," ","c","h","u","r","n","?">>,
     <<"A","n","a","l","y","z","e"," ","C","O","V","I","D","-","1","9"," ","r","i","s","k"," ","f","o","r"," ","F","r","a","n","c","e"," ","w","i","t","h"," ","5","0","0",",","0","0","0"," ","c","a","s","e","s">>,
     <<"C","h","e","c","k"," ","c","h","u","r","n"," ","p","r","o","b","a","b","i","l","i","t","y"," ","f","o","r"," ","a"," ","c","u","s","t","o","m","e","r"," ","w","i","t","h"," ","2","4"," ","m","o","n","t","h","s"," ","t","e","n","u","r","e">> >>

\* useState of messages, input and isLoading; inflight holds the pending
\* calls of mutateAsync, sent counts them, handled counts the runs of
\* handleSendMessage, and outcome is how the last mutation ended
ChatInitial ==
  [messages |-> <<greeting>>, input |-> <<>>, isLoading |-> FALSE,
   inflight |-> <<>>, sent |-> 0, handled |-> 0, outcome |-> "none"]

\* !input.trim()
isBlank(text) == trim(text) = <<>>

\* nothing on the page is ever disabled
disabledNever(u) == FALSE

\* disabled={isLoading} of the Input (line 195) and of the submit Button
\* (line 200): while it holds the user can neither type nor submit
disabled(u) == u.isLoading

\* handleSendMessage up to the await of mutateAsync (lines 41-61)
handleSendMessageStart(u) ==
  IF isBlank(u.input)
    THEN [u EXCEPT !.handled = @ + 1]
    ELSE [u EXCEPT !.messages = Append(@, [role |-> "user", content |-> u.input]),
                   !.input = <<>>,
                   !.isLoading = TRUE,
                   !.inflight = Append(@, u.input),
                   !.sent = @ + 1,
                   !.handled = @ + 1]

\* handleSendMessage after the await: the try or the catch branch appends
\* the assistant message with content, and finally resets isLoading
\* (lines 63-91)
handleSendMessageEnd(u, content, how) ==
  [u EXCEPT !.messages = Append(@, [role |-> "assistant", content |-> content]),
            !.isLoading = FALSE,
            !.inflight = Tail(@),
            !.outcome = how]

(***************************************************************************)
(* The start-up scripts (start-local.sh and the start real ML services     *)
(* script)                                                                 *)
(***************************************************************************)
\* the services in the order in which both scripts start them
Services == <<"covid", "churn", "web">>

Scripts == {"start-local", "start-real"}

\* a process the script started is running: it answers /health ("healthy")
\* or does not answer yet ("starting")
alive(p) == p \in {"healthy", "starting"}

\* start-local.sh starts the web application and goes on without a check
\* (lines 86-90); every other start is followed by one
hasCheck(script, svc) == ~(script = "start-local" /\ svc = "web")

\* the check after the sleep: curl -s .../health in start-local.sh (lines
\* 63, 78), kill -0 $PID in the other script (lines 208, 227, 247), whose
\* own curl only prints a warning
passesCheck(script, p) ==
  IF script = "start-local" THEN p = "healthy" ELSE alive(p)

\* a failed check kills the failing service only
killedOnFailureSelf(script, i) == {Services[i]}

\* the PIDs of the kill command in the failure branch of the i-th check:
\* kill $COVID_PID, kill $COVID_PID $CHURN_PID in start-local.sh (lines 66,
\* 81); none, $COVID_PID, $COVID_PID $CHURN_PID in the other script
\* (lines 210, 229, 249)
killedOnFailure(script, i) ==
  IF script = "start-local"
    THEN {Services[k] : k \in 1..i}
    ELSE {Services[k] : k \in 1..(i - 1)}

\* kill PID... 2>/dev/null: the running ones of them terminate
kill(proc, pids) ==
  [s \in DOMAIN proc |-> IF s \in pids /\ alive(proc[s]) THEN "killed" ELSE proc[s]]

\* no start-up script has been run
ScriptNotRun ==
  [script |-> "none", pc |-> "NotRun", next |-> 1,
   proc |-> [s \in {"covid", "churn", "web"} |-> "notStarted"],
   started |-> <<>>, passed |-> {}, failed |-> "none", status |-> 0]

(***************************************************************************)
(* State                                                                   *)
(***************************************************************************)
Reqs == {1, 2}

VARIABLES
  query,       \* query[r]: input.query of request r
  pc,          \* pc[r]: where request r is
  intent,      \* intent[r], confidence[r]: what classifyIntent returned
  confidence,
  parameters,  \* parameters[r]: the handler's variable parameters
  prediction,  \* prediction[r]: the handler's variable prediction
  returned,    \* returned[r]: what the mutation gave its caller
  calls,       \* calls[r]: the outbound calls of request r, in issue order
  now,         \* the last reading of Date.now()
  env,         \* process.env
  ui,          \* the state of the chat page (GeminiAgent.tsx)
  sh           \* the run of a start-up script and the processes it started

vars ==
  <<query, pc, intent, confidence, parameters, prediction, returned, calls, now, env,
    ui, sh>>

\* the variables of agent.query
agentVars ==
  <<query, pc, intent, confidence, parameters, prediction, returned, calls, now, env>>

Terminal == {"Clarify", "ResponseReady", "Threw"}

\* the state in which request 1 with query q has been accepted and no other
InitOne(q, e) ==
  /\ query = [r \in Reqs |-> IF r = 1 THEN q ELSE <<>>]
  /\ pc = [r \in Reqs |-> IF r = 1 THEN "Received" ELSE "Idle"]
  /\ intent = [r \in Reqs |-> "none"]
  /\ confidence = [r \in Reqs |-> Quot(0, 1)]
  /\ parameters = [r \in Reqs |-> Undefined]
  /\ prediction = [r \in Reqs |-> Undefined]
  /\ returned = [r \in Reqs |-> NoResult]
  /\ calls = [r \in Reqs |-> <<>>]
  /\ now = 0
  /\ env = e
  /\ ui = ChatInitial
  /\ sh = ScriptNotRun

Init == \E q \in Queries, e \in Envs : InitOne(q, e)

\* the call is not awaited: the handler goes on while it is still in flight
CompletedNotAwaited(cs, o) == cs

\* the last call of request r returns with outcome o
Completed(cs, o) == [cs EXCEPT ![Len(cs)].outcome = o]

\* one binding at module level: every request uses that of request 1
OwnShared(r) == 1

\* parameters and prediction are let bindings of the mutation callback
\* (part_007:301, 333): the ones that request r uses are its own
Own(r) == r

(***************************************************************************)
(* Steps of agent.query                                                    *)
(***************************************************************************)
\* part_007:287-290
Classify(r) ==
  /\ pc[r] = "Received"
  /\ LET c == classifyIntent(query[r])
     IN  /\ intent' = [intent EXCEPT ![r] = c.intent]
         /\ confidence' = [confidence EXCEPT ![r] = c.confidence]
  /\ pc' = [pc EXCEPT ![r] = "Classified"]
  /\ UNCHANGED <<query, parameters, prediction, returned, calls, now, env, ui, sh>>

\* part_007:292-303 and 317, up to the await of invokeLLM
Route(r) ==
  /\ pc[r] = "Classified"
  /\ IF needsClarification(intent[r], confidence[r])
       THEN /\ returned' = [returned EXCEPT ![r] = clarifyResponse]
            /\ pc' = [pc EXCEPT ![r] = "Clarify"]
            /\ UNCHANGED calls
       ELSE /\ calls' = [calls EXCEPT ![r] =
                 Append(@, LLMCall(IF intent[r] = "covid"
                                     THEN "extractCovidParameters"
                                     ELSE "extractChurnParameters"))]
            /\ pc' = [pc EXCEPT ![r] = "Extracting"]
            /\ UNCHANGED returned
  /\ UNCHANGED <<query, intent, confidence, parameters, prediction, now, env, ui, sh>>

\* the completion service replies with one of replies: the rest of
\* extract*Parameters
ExtractReturnFrom(r, replies) ==
  /\ pc[r] = "Extracting"
  /\ \E reply \in replies :
       /\ parameters' = [parameters EXCEPT ![Own(r)] =
            IF intent[r] = "covid"
              THEN extractCovidParameters(query[r], reply)
              ELSE extractChurnParameters(query[r], reply)]
       /\ calls' = [calls EXCEPT ![r] = Completed(@, reply)]
  /\ pc' = [pc EXCEPT ![r] = "ParametersExtracted"]
  /\ UNCHANGED <<query, intent, confidence, prediction, returned, now, env, ui, sh>>

ExtractReturn(r) == ExtractReturnFrom(r, ExtractReplies)

\* part_007:305-337, up to the await of axios.post
CheckParameters(r) ==
  /\ pc[r] = "ParametersExtracted"
  /\ IF isEmptyParameters(parameters[Own(r)])
       THEN /\ returned' = [returned EXCEPT ![r] =
                 needMoreResponse(intent[r], confidence[r])]
            /\ pc' = [pc EXCEPT ![r] = "Clarify"]
            /\ UNCHANGED <<parameters, calls, now>>
     ELSE IF ~CanIn(parameters[Own(r)])
       THEN /\ returned' = [returned EXCEPT ![r] = Exception("TypeError")]
            /\ pc' = [pc EXCEPT ![r] = "Threw"]
            /\ UNCHANGED <<parameters, calls, now>>
     ELSE \E t \in now..MaxClock :
            /\ t = now \/ (intent[r] = "churn" /\ ~In("customer_id", parameters[Own(r)]))
            /\ now' = t
            /\ parameters' = [parameters EXCEPT ![Own(r)] = withDefaults(intent[r], @, t)]
            /\ calls' = [calls EXCEPT ![r] =
                 Append(@, postFor(intent[r], env, withDefaults(intent[r], parameters[Own(r)], t)))]
            /\ pc' = [pc EXCEPT ![r] = "Predicting"]
            /\ UNCHANGED returned
  /\ UNCHANGED <<query, intent, confidence, prediction, env, ui, sh>>

\* the POST ends in one of outcomes: the rest of call*Service
PredictReturnFrom(r, outcomes) ==
  /\ pc[r] = "Predicting"
  /\ \E o \in outcomes :
       /\ prediction' = [prediction EXCEPT ![Own(r)] = predictionOf(intent[r], o)]
       /\ calls' = [calls EXCEPT ![r] = Completed(@, o)]
  /\ pc' = [pc EXCEPT ![r] = "PredictionObtained"]
  /\ UNCHANGED <<query, intent, confidence, parameters, returned, now, env, ui, sh>>

PredictReturn(r) == PredictReturnFrom(r, PostOutcomes)

\* part_007:341 and 249-258, up to the await of invokeLLM
Synthesize(r) ==
  /\ pc[r] = "PredictionObtained"
  /\ IF ~CanIn(prediction[Own(r)])
       THEN /\ returned' = [returned EXCEPT ![r] = Exception("TypeError")]
            /\ pc' = [pc EXCEPT ![r] = "Threw"]
            /\ UNCHANGED calls
     ELSE IF hasError(prediction[Own(r)])
       THEN /\ returned' = [returned EXCEPT ![r] =
                 finalResponse(errorResponse(prediction[Own(r)]), intent[r],
                               confidence[r], prediction[Own(r)])]
            /\ pc' = [pc EXCEPT ![r] = "ResponseReady"]
            /\ UNCHANGED calls
     ELSE /\ calls' = [calls EXCEPT ![r] = Append(@, LLMCall("synthesizeResponse"))]
          /\ pc' = [pc EXCEPT ![r] = "Synthesizing"]
          /\ UNCHANGED returned
  /\ UNCHANGED <<query, intent, confidence, parameters, prediction, now, env, ui, sh>>

\* the completion service replies with one of replies: part_007:271-276 and
\* 343-349
SynthReturnFrom(r, replies) ==
  /\ pc[r] = "Synthesizing"
  /\ \E reply \in replies :
       /\ returned' = [returned EXCEPT ![r] =
            finalResponse(synthesizedText(reply), intent[r], confidence[r],
                          prediction[Own(r)])]
       /\ calls' = [calls EXCEPT ![r] = Completed(@, reply)]
  /\ pc' = [pc EXCEPT ![r] = "ResponseReady"]
  /\ UNCHANGED <<query, intent, confidence, parameters, prediction, now, env, ui, sh>>

SynthReturn(r) == SynthReturnFrom(r, SynthReplies)

Next ==
  \E r \in Reqs :
    \/ Classify(r)
    \/ Route(r)
    \/ ExtractReturn(r)
    \/ CheckParameters(r)
    \/ PredictReturn(r)
    \/ Synthesize(r)
    \/ SynthReturn(r)

Spec == Init /\ [][Next]_vars

(***************************************************************************)
(* classifyIntent on its own, over the whole grid of keyword counts        *)
(***************************************************************************)
\* the last n elements of a sequence
LastN(seq, n) == SubSeq(seq, Len(seq) - n + 1, Len(seq))

\* a query that holds exactly c covid keywords and h churn keywords (of the
\* keyword lists only "virus" occurs inside another keyword, "coronavirus",
\* and the last c covid keywords hold "coronavirus" only together with it)
KeywordQuery(c, h, shout) ==
  LET text == Join(<<<<"a","b","o","u","t">>>>
                   \o LastN(covidKeywords, c) \o LastN(churnKeywords, h))
  IN  IF shout THEN toUpperCase(text) ELSE text

InitClassify ==
  \E c \in 0..Len(covidKeywords), h \in 0..Len(churnKeywords), shout \in BOOLEAN,
     e \in Envs :
    InitOne(KeywordQuery(c, h, shout), e)

NextClassify == \E r \in Reqs : Classify(r)

SpecClassify == InitClassify /\ [][NextClassify]_vars

\* classifyIntent and the guard of line 292, over the grid of keyword counts
NextGuard == \E r \in Reqs : Classify(r) \/ Route(r)

SpecGuard == InitClassify /\ [][NextGuard]_vars

(***************************************************************************)
(* agent.query on whole sentences                                          *)
(***************************************************************************)
\* queries written out in full
ExampleQueries ==
  { <<"c","u","s","t","o","m","e","r"," ","w","i","t","h"," ","2","4"," ","m","o","n","t","h","s"," ","t","e","n","u","r","e"," ","p","a","y","i","n","g"," ","$","8","5"," ","m","o","n","t","h","l","y">>,
    <<"C","O","V","I","D"," ","i","n"," ","U","S","A">>,
    <<"c","o","v","i","d"," ","c","a","s","e","s",":"," ","i","n","d","i","a",","," ","t","h","e","n"," ","U","K">>,
    <<"v","i","r","u","s"," ","s","t","a","t","u","s">>,
    <<"p","a","n","d","e","m","i","c"," ","i","n"," ","t","h","e"," ","u","s">>,
    <<"c","u","s","t","o","m","e","r"," ","p","a","y","i","n","g"," ","$","8","5",".","5","0"," ","m","o","n","t","h","l","y",","," ","2","4"," ","m","o","n","t","h","s">>,
    <<"i","s"," ","c","u","s","t","o","m","e","r"," ","C","4","2"," ","l","e","a","v","i","n","g">>,
    <<"w","i","l","l"," ","t","h","i","s"," ","c","u","s","t","o","m","e","r"," ","c","a","n","c","e","l">> }

InitExamples == \E q \in ExampleQueries, e \in Envs : InitOne(q, e)

SpecExamples == InitExamples /\ [][Next]_vars

(***************************************************************************)
(* Two requests in flight together                                         *)
(***************************************************************************)
\* the state in which requests 1 and 2 have both been accepted
InitTwo(q1, q2, e) ==
  /\ query = [r \in Reqs |-> IF r = 1 THEN q1 ELSE q2]
  /\ pc = [r \in Reqs |-> "Received"]
  /\ intent = [r \in Reqs |-> "none"]
  /\ confidence = [r \in Reqs |-> Quot(0, 1)]
  /\ parameters = [r \in Reqs |-> Undefined]
  /\ prediction = [r \in Reqs |-> Undefined]
  /\ returned = [r \in Reqs |-> NoResult]
  /\ calls = [r \in Reqs |-> <<>>]
  /\ now = 0
  /\ env = e
  /\ ui = ChatInitial
  /\ sh = ScriptNotRun

ConcurrentQueries ==
  { Join(<<Vocabulary[1], Vocabulary[4]>>), Join(<<Vocabulary[3], Vocabulary[5]>>) }

ConcurrentExtractReplies ==
  { LLMThrow, LLMContent(JSONTable[5].text), LLMContent(JSONTable[7].text) }

ConcurrentPostOutcomes ==
  { [kind |-> "timeout"],
    [kind |-> "response", status |-> 200, data |-> Obj("risk_score" :> Num(42, 2))] }

ConcurrentSynthReplies == { LLMThrow, LLMContent("The risk is moderate.") }

InitConcurrent ==
  \E q1 \in ConcurrentQueries, q2 \in ConcurrentQueries, e \in Envs : InitTwo(q1, q2, e)

\* the event loop runs a step of either request
NextConcurrent ==
  \E r \in Reqs :
    \/ Classify(r)
    \/ Route(r)
    \/ ExtractReturnFrom(r, ConcurrentExtractReplies)
    \/ CheckParameters(r)
    \/ PredictReturnFrom(r, ConcurrentPostOutcomes)
    \/ Synthesize(r)
    \/ SynthReturnFrom(r, ConcurrentSynthReplies)

SpecConcurrent == InitConcurrent /\ [][NextConcurrent]_vars

(***************************************************************************)
(* Extraction of replies with and without a code fence                     *)
(***************************************************************************)
\* white space around the markers and the object
Pads == { <<>>, <<"\n">>, <<" ", "\n">> }

\* the JSON objects of JSONTable
ObjectTexts == { JSONTable[i].text : i \in {k \in 1..Len(JSONTable) : JSONTable[k].value.t = "obj"} }

\* body between an opening marker and the closing marker, with white space
\* before, between and after
Fenced(a, opening, b, body, c, d) == a \o opening \o b \o body \o c \o fence \o d

\* an object in a fence, or bare, as the reply to an extraction prompt
FencedReplies ==
  { LLMContent(Fenced(a, opening, b, body, c, d)) :
      a \in Pads, opening \in {fence, fenceJson}, b \in Pads, body \in ObjectTexts,
      c \in Pads, d \in Pads }
  \cup { LLMContent(a \o body \o d) : a \in Pads, body \in ObjectTexts, d \in Pads }

InitFence == \E q \in QueriesOf(1), e \in Envs : InitOne(q, e)

NextFence ==
  \E r \in Reqs :
    \/ Classify(r)
    \/ Route(r)
    \/ ExtractReturnFrom(r, FencedReplies)

SpecFence == InitFence /\ [][NextFence]_vars

(***************************************************************************)
(* The orchestrator without regex fallback (part_004)                      *)
(***************************************************************************)
\* part_004:84-126 and 131-158: both extractors return JSON.parse of the
\* cleaned content, and {} when anything throws
extractParametersNoFallback(reply) ==
  IF reply.kind = "throw" THEN Obj(EmptyMap)
  ELSE LET parsed == JSONParse(cleanJsonResponse(ContentOrEmptyObject(reply)))
       IN  IF parsed.ok THEN parsed.v ELSE Obj(EmptyMap)

\* the key that part_004:255 and 264 look for
requiredKey(i) == IF i = "covid" THEN "country_name" ELSE "customer_id"

\* part_004:251-279, for a request classified i: what the handler does with
\* the reply to the extraction prompt
stepNoFallback(i, e, reply) ==
  LET params == extractParametersNoFallback(reply)
  IN  IF Falsy(params) THEN [kind |-> "clarify"]
      ELSE IF ~CanIn(params) THEN [kind |-> "throw"]
      ELSE IF ~In(requiredKey(i), params) THEN [kind |-> "clarify"]
      ELSE [kind |-> "post", call |-> postFor(i, e, params)]

(***************************************************************************)
(* The chat page as a state machine                                        *)
(***************************************************************************)
MaxSubmits == 3

\* what the user types: nothing, blanks, or a question
ChatInputs == { <<>>, <<" ", " ">>, <<"c", "o", "v", "i", "d", "?">> }

\* data.response of a resolved mutation
ChatResponses == { <<"T", "h", "e", " ", "r", "i", "s", "k", " ", "i", "s", " ", "l", "o", "w", ".">> }

\* onChange of the Input (line 194), which is disabled while isLoading
TypeInput ==
  /\ ~disabled(ui)
  /\ \E text \in ChatInputs : ui' = [ui EXCEPT !.input = text]
  /\ UNCHANGED <<agentVars, sh>>

\* onClick of an example button, rendered only while messages.length === 1
\* (lines 119-135)
ClickExample ==
  /\ Len(ui.messages) = 1
  /\ \E k \in DOMAIN exampleQueries : ui' = [ui EXCEPT !.input = exampleQueries[k]]
  /\ UNCHANGED <<agentVars, sh>>

\* onSubmit of the form: handleSendMessage up to its await
SubmitForm ==
  /\ ~disabled(ui)
  /\ ui.handled < MaxSubmits
  /\ ui' = handleSendMessageStart(ui)
  /\ UNCHANGED <<agentVars, sh>>

\* mutateAsync resolves: the try branch, then finally
MutationResolves ==
  /\ ui.inflight # <<>>
  /\ \E response \in ChatResponses : ui' = handleSendMessageEnd(ui, response, "resolved")
  /\ UNCHANGED <<agentVars, sh>>

\* mutateAsync rejects: the catch branch, then finally
MutationRejects ==
  /\ ui.inflight # <<>>
  /\ ui' = handleSendMessageEnd(ui, apology, "rejected")
  /\ UNCHANGED <<agentVars, sh>>

InitChat == \E e \in Envs : InitOne(<<>>, e)

NextChat ==
  \/ TypeInput
  \/ ClickExample
  \/ SubmitForm
  \/ MutationResolves
  \/ MutationRejects

SpecChat == InitChat /\ [][NextChat]_vars

(***************************************************************************)
(* The start-up scripts as a state machine                                 *)
(***************************************************************************)
\* the script begins: its prerequisite checks (.env, python3; the model
\* files) end it with exit 1 before anything is started, or it goes on
RunScript(s) ==
  /\ sh.pc = "NotRun"
  /\ \E ok \in BOOLEAN :
       sh' = IF ok THEN [sh EXCEPT !.script = s, !.pc = "Start"]
             ELSE [sh EXCEPT !.script = s, !.pc = "Exited", !.status = 1]
  /\ UNCHANGED <<agentVars, ui>>

\* python3 ... & (pnpm dev ... &), PID=$!, sleep
StartService ==
  /\ sh.pc = "Start"
  /\ LET svc == Services[sh.next]
     IN  sh' = [sh EXCEPT !.proc[svc] = "starting",
                          !.started = Append(@, svc),
                          !.pc = IF hasCheck(sh.script, svc) THEN "Check" ELSE "Wait"]
  /\ UNCHANGED <<agentVars, ui>>

\* the if after the sleep: on failure kill and exit 1, else go on to the
\* next service or to the final wait
CheckService ==
  /\ sh.pc = "Check"
  /\ LET svc == Services[sh.next]
     IN  sh' = IF passesCheck(sh.script, sh.proc[svc])
                 THEN [sh EXCEPT !.passed = @ \cup {svc},
                                 !.pc = IF sh.next = Len(Services) THEN "Wait" ELSE "Start",
                                 !.next = IF sh.next = Len(Services) THEN @ ELSE @ + 1]
                 ELSE [sh EXCEPT !.proc = kill(@, killedOnFailure(sh.script, sh.next)),
                                 !.failed = svc,
                                 !.pc = "Exited",
                                 !.status = 1]
  /\ UNCHANGED <<agentVars, ui>>

\* trap cleanup SIGINT SIGTERM: kill what was started, exit 0
Interrupt ==
  /\ sh.pc \in {"Start", "Check", "Wait"}
  /\ sh' = [sh EXCEPT !.proc = kill(@, {Services[k] : k \in 1..Len(sh.started)}),
                      !.pc = "Exited",
                      !.status = 0]
  /\ UNCHANGED <<agentVars, ui>>

\* the final wait returns once no process is left: start-local.sh exits
\* with the status of the last PID, the other script with 0
WaitReturns ==
  /\ sh.pc = "Wait"
  /\ \A k \in DOMAIN Services : ~alive(sh.proc[Services[k]])
  /\ \E st \in (IF sh.script = "start-local" THEN {0, 1} ELSE {0}) :
       sh' = [sh EXCEPT !.pc = "Exited", !.status = st]
  /\ UNCHANGED <<agentVars, ui>>

\* a started service begins to answer /health
Serve(svc) ==
  /\ sh.proc[svc] = "starting"
  /\ sh' = [sh EXCEPT !.proc[svc] = "healthy"]
  /\ UNCHANGED <<agentVars, ui>>

\* a running service exits on its own
Crash(svc) ==
  /\ alive(sh.proc[svc])
  /\ sh' = [sh EXCEPT !.proc[svc] = "exited"]
  /\ UNCHANGED <<agentVars, ui>>

InitScripts == \E e \in Envs : InitOne(<<>>, e)

NextScripts ==
  \/ \E s \in Scripts : RunScript(s)
  \/ StartService
  \/ CheckService
  \/ Interrupt
  \/ WaitReturns
  \/ \E k \in DOMAIN Services : Serve(Services[k])
  \/ \E k \in DOMAIN Services : Crash(Services[k])

SpecScripts == InitScripts /\ [][NextScripts]_vars

(***************************************************************************)
(* Properties                                                              *)
(***************************************************************************)
\* the calls of request r made with api
CallsOf(r, api) == {k \in DOMAIN calls[r] : calls[r][k].api = api}

\* the completion calls of request r issued by the function named by
LLMCallsBy(r, by) ==
  {k \in DOMAIN calls[r] : calls[r][k].api = "invokeLLM" /\ calls[r][k].by = by}

\* C1: whatever the completion service and the prediction service answer,
\* agent.query ends in Clarify or ResponseReady and returns an AgentResponse;
\* no exception escapes to the caller.
C1_NoExceptionEscapes ==
  \A r \in Reqs :
    /\ pc[r] # "Threw"
    /\ returned[r].t # "exception"
    /\ pc[r] \in Terminal => returned[r].t = "AgentResponse"

\* the fixed clarification of the unknown branch
C2_Clarification ==
  [t |-> "AgentResponse",
   response |-> "I'm not sure if you're asking about COVID-19 or customer churn. Could you please clarify?",
   intent |-> "unknown",
   confidence |-> [n |-> 0, d |-> 1]]

\* C2: a finished request has returned the fixed clarification (intent
\* unknown, confidence 0, no modelUsed, no rawPrediction) exactly when the
\* Classifier returned unknown or a confidence below 0.3, and then it has
\* made no outbound call.
C2_ClarifyIffUnknownOrLow ==
  \A r \in Reqs :
    pc[r] \in Terminal =>
      LET low == \/ intent[r] = "unknown"
                 \/ 10 * confidence[r].n < 3 * confidence[r].d
      IN  /\ (returned[r] = C2_Clarification) <=> low
          /\ low => calls[r] = <<>> /\ pc[r] = "Clarify"

C2_Witness ==
  \E r \in Reqs :
    /\ pc[r] = "Clarify"
    /\ intent[r] = "unknown"
    /\ returned[r] = C2_Clarification
    /\ calls[r] = <<>>

\* the number of keywords that occur in the lower-cased query
C3_Count(keywords, q) ==
  Cardinality({k \in 1..Len(keywords) : includes(toLowerCase(q), keywords[k])})

\* C3: with c covid keywords and h churn keywords in the lower-cased query,
\* classifyIntent returns covid with confidence c/(c+h+1) when c > h and
\* c > 0, else churn with confidence h/(c+h+1) when h > 0 (a tie is churn),
\* else unknown with confidence 0; c = 3, h = 1 gives 3/5; keywords of one
\* list only give that list's intent with a confidence above 0.
C3_ClassifyByCounts ==
  \A r \in Reqs :
    pc[r] = "Classified" =>
      LET c == C3_Count(covidKeywords, query[r])
          h == C3_Count(churnKeywords, query[r])
          conf == confidence[r]
      IN  /\ IF c > h /\ c > 0
               THEN intent[r] = "covid" /\ conf.n * (c + h + 1) = c * conf.d
             ELSE IF h > 0
               THEN intent[r] = "churn" /\ conf.n * (c + h + 1) = h * conf.d
             ELSE intent[r] = "unknown" /\ conf.n = 0
          /\ conf.d > 0
          /\ c = 3 /\ h = 1 => 5 * conf.n = 3 * conf.d
          /\ c > 0 /\ h = 0 => intent[r] = "covid" /\ conf.n > 0
          /\ h > 0 /\ c = 0 => intent[r] = "churn" /\ conf.n > 0

\* the query of three covid keywords and one churn keyword has been
\* classified covid with confidence 3/5, and a tie has been classified churn
C3_Witness ==
  \E r \in Reqs :
    /\ pc[r] = "Classified"
    /\ \/ /\ query[r] = KeywordQuery(3, 1, TRUE)
          /\ intent[r] = "covid"
          /\ confidence[r] = [n |-> 3, d |-> 5]
       \/ /\ query[r] = KeywordQuery(2, 2, FALSE)
          /\ intent[r] = "churn"
          /\ confidence[r] = [n |-> 2, d |-> 5]

\* every ParameterSet posted is an object with at least one key
C4_PostsNonEmpty ==
  \A r \in Reqs :
    \A k \in CallsOf(r, "axios.post") :
      /\ calls[r][k].data.t = "obj"
      /\ DOMAIN calls[r][k].data.f # {}

\* a request whose extraction result has no key goes to Clarify, posting
\* nothing
C4_EmptyEndsInClarify ==
  \A r \in Reqs :
    (/\ pc[r] = "ParametersExtracted"
     /\ pc'[r] # "ParametersExtracted"
     /\ KeyCount(parameters[r]) = 0)
      => pc'[r] = "Clarify" /\ calls'[r] = calls[r]

\* C4: the ParameterSet passed to the Prediction Gateway is never empty; an
\* empty extraction result ends in Clarify before the Gateway is reached.
C4_GatewayNeverGetsEmpty == []C4_PostsNonEmpty /\ [][C4_EmptyEndsInClarify]_vars

C4_Witness ==
  \E r \in Reqs :
    /\ pc[r] = "Predicting"
    /\ CallsOf(r, "axios.post") # {}
    /\ \A k \in CallsOf(r, "axios.post") :
         DOMAIN calls[r][k].data.f = {"deaths", "country_name"}

\* C5: the ParameterSet posted on the covid branch has a string
\* country_name and the one posted on the churn branch a string customer_id,
\* whatever the completion service replied.
C5_ForwardedIdentifierIsString ==
  \A r \in Reqs :
    \A k \in CallsOf(r, "axios.post") :
      LET data == calls[r][k].data
      IN  /\ data.t = "obj"
          /\ intent[r] = "covid" =>
               "country_name" \in DOMAIN data.f /\ data.f["country_name"].t = "str"
          /\ intent[r] = "churn" =>
               "customer_id" \in DOMAIN data.f /\ data.f["customer_id"].t = "str"

\* C6: when the Extractor returned the empty ParameterSet, agent.query
\* returns the "need more information" message of the intent with the
\* Classifier's intent and confidence (neither unknown nor 0), without
\* modelUsed or rawPrediction, and calls neither Gateway nor Synthesizer.
C6_EmptyExtractionAsksForMore ==
  [][\A r \in Reqs :
       (/\ pc[r] = "ParametersExtracted"
        /\ pc'[r] # "ParametersExtracted"
        /\ parameters[r].t = "obj"
        /\ DOMAIN parameters[r].f = {})
         => /\ pc'[r] = "Clarify"
            /\ intent[r] \in {"covid", "churn"}
            /\ confidence[r].n > 0
            /\ returned'[r] =
                 [t |-> "AgentResponse",
                  response |-> IF intent[r] = "covid"
                    THEN "I need at least some information to make a COVID-19 prediction. Please provide country name or case statistics."
                    ELSE "I need at least some information about the customer to assess churn risk. Please provide details like tenure, monthly charges, or contract type.",
                  intent |-> intent[r],
                  confidence |-> confidence[r]]
            /\ calls'[r] = calls[r]
            /\ CallsOf(r, "axios.post") = {}
            /\ LLMCallsBy(r, "synthesizeResponse") = {}]_vars

C6_Witness ==
  \E r \in Reqs :
    /\ pc[r] = "Clarify"
    /\ intent[r] = "churn"
    /\ parameters[r].t = "obj"
    /\ DOMAIN parameters[r].f = {}
    /\ returned[r].intent = "churn"
    /\ returned[r].confidence = [n |-> 1, d |-> 2]
    /\ Len(calls[r]) = 1

\* C7: call*Service never raises: a network failure, a non-2xx response or a
\* timeout gives the object whose only key is error, with the fixed text of
\* the service; a 2xx response gives its body unchanged.
C7_GatewayNeverRaises ==
  [][\A r \in Reqs :
       (pc[r] = "Predicting" /\ pc'[r] # "Predicting") =>
         LET o == calls'[r][Len(calls'[r])].outcome
             ok == o.kind = "response" /\ o.status \in 200..299
         IN  /\ pc'[r] = "PredictionObtained"
             /\ o.kind \in {"response", "networkError", "timeout"}
             /\ ok => prediction'[r] = o.data
             /\ ~ok =>
                  /\ prediction'[r].t = "obj"
                  /\ DOMAIN prediction'[r].f = {"error"}
                  /\ prediction'[r].f["error"] =
                       [t |-> "str",
                        s |-> IF intent[r] = "covid"
                                THEN "Failed to get COVID prediction"
                                ELSE "Failed to get churn prediction"]]_vars

C7_Witness ==
  \E r \in Reqs :
    /\ pc[r] = "PredictionObtained"
    /\ intent[r] = "churn"
    /\ calls[r][Len(calls[r])].outcome.kind = "response"
    /\ calls[r][Len(calls[r])].outcome.status = 500
    /\ prediction[r].f["error"].s = "Failed to get churn prediction"

\* the prediction of request r is an object with the key error
C8_HasErrorKey(r) ==
  prediction[r].t = "obj" /\ "error" \in DOMAIN prediction[r].f

\* C8: when the PredictionResult handed to the Synthesizer has an error key,
\* the response is "I encountered an error: " followed by the error value,
\* no completion call is made for synthesis, and the request completes as
\* ResponseReady with modelUsed set and rawPrediction equal to the payload.
C8_ErrorShortCircuits ==
  \A r \in Reqs :
    (pc[r] \in {"Synthesizing", "ResponseReady", "Threw"} /\ C8_HasErrorKey(r)) =>
      LET e == prediction[r].f["error"]
      IN  /\ pc[r] = "ResponseReady"
          /\ returned[r].t = "AgentResponse"
          /\ returned[r].response =
               "I encountered an error: " \o (IF e.t = "str" THEN e.s ELSE "null")
          /\ LLMCallsBy(r, "synthesizeResponse") = {}
          /\ returned[r].modelUsed \in {"COVID-19 Prediction Model", "Churn Prediction Model"}
          /\ returned[r].rawPrediction = prediction[r]

C8_Witness ==
  \E r \in Reqs :
    /\ pc[r] = "ResponseReady"
    /\ calls[r][Len(calls[r])].outcome.kind = "timeout"
    /\ returned[r].response = "I encountered an error: Failed to get COVID prediction"
    /\ returned[r].rawPrediction = prediction[r]

\* C9: an AgentResponse returned from ResponseReady has the intent and
\* confidence that the Classifier returned, the model label of that intent,
\* and as rawPrediction the value the Gateway returned.
C9_ResponseEchoesPipeline ==
  \A r \in Reqs :
    pc[r] = "ResponseReady" =>
      LET cl == classifyIntent(query[r])
          post == calls[r][Least(CallsOf(r, "axios.post"))]
      IN  /\ returned[r].t = "AgentResponse"
          /\ returned[r].intent = cl.intent
          /\ returned[r].confidence = cl.confidence
          /\ returned[r].intent \in {"covid", "churn"}
          /\ (returned[r].modelUsed = "COVID-19 Prediction Model") <=> (cl.intent = "covid")
          /\ (returned[r].modelUsed = "Churn Prediction Model") <=> (cl.intent = "churn")
          /\ returned[r].rawPrediction = prediction[r]
          /\ (post.outcome.kind = "response" /\ post.outcome.status \in 200..299)
               => returned[r].rawPrediction = post.outcome.data

C9_Witness ==
  \E r \in Reqs :
    /\ pc[r] = "ResponseReady"
    /\ returned[r].intent = "covid"
    /\ returned[r].modelUsed = "COVID-19 Prediction Model"
    /\ returned[r].rawPrediction = [t |-> "obj", f |-> [risk_score |-> [t |-> "num", m |-> 42, e |-> 2]]]
    /\ returned[r].response = "The risk is moderate."

\* C10: a request that reaches the Gateway issues exactly one POST, to
\* /predict/covid for covid and to /predict/churn for churn; no outbound
\* call is issued a second time, whatever the first attempt's outcome.
C10_OnePostNoRetry ==
  \A r \in Reqs :
    /\ Cardinality(CallsOf(r, "axios.post")) <= 1
    /\ pc[r] \in {"Predicting", "PredictionObtained", "Synthesizing", "ResponseReady"}
         => Cardinality(CallsOf(r, "axios.post")) = 1
    /\ \A k \in CallsOf(r, "axios.post") :
         /\ intent[r] = "covid" =>
              calls[r][k].url = "http://covid-service:8000/predict/covid"
         /\ intent[r] = "churn" =>
              calls[r][k].url = "http://localhost:8001/predict/churn"
    /\ Cardinality(LLMCallsBy(r, "extractCovidParameters")
                   \cup LLMCallsBy(r, "extractChurnParameters")) <= 1
    /\ Cardinality(LLMCallsBy(r, "synthesizeResponse")) <= 1
    /\ Len(calls[r]) <= 3

C10_Witness ==
  \E r \in Reqs :
    /\ pc[r] = "ResponseReady"
    /\ intent[r] = "covid"
    /\ Cardinality(CallsOf(r, "axios.post")) = 1
    /\ Len(calls[r]) = 2
    /\ calls[r][1].outcome = LLMThrow
    /\ calls[r][2].outcome.kind = "networkError"
    /\ calls[r][2].url = "http://covid-service:8000/predict/covid"

\* request r took the unknown branch of part_007:292
C11_UnknownBranch(r) ==
  intent[r] = "unknown" \/ 10 * confidence[r].n < 3 * confidence[r].d

\* the completion calls that request r made for extraction
C11_ExtractionCalls(r) ==
  LLMCallsBy(r, "extractCovidParameters") \cup LLMCallsBy(r, "extractChurnParameters")

\* C11 as it is stated: a finished request classified covid or churn has
\* called the completion service exactly twice, once for extraction and once
\* for synthesis, and a finished request of the unknown branch never.
C11_ExactlyTwoCompletionCalls ==
  \A r \in Reqs :
    pc[r] \in Terminal =>
      IF C11_UnknownBranch(r)
        THEN CallsOf(r, "invokeLLM") = {}
        ELSE /\ Cardinality(C11_ExtractionCalls(r)) = 1
             /\ Cardinality(LLMCallsBy(r, "synthesizeResponse")) = 1
             /\ Cardinality(CallsOf(r, "invokeLLM")) = 2

\* C11: a finished request classified covid or churn has called the
\* completion service once for extraction, by the extractor of its intent,
\* and once more for synthesis exactly when the Gateway was called and gave
\* an object without an error key, and otherwise not again; a finished
\* request of the unknown branch has never called it.
C11_CompletionCallsPerRequest ==
  \A r \in Reqs :
    pc[r] \in Terminal =>
      IF C11_UnknownBranch(r)
        THEN CallsOf(r, "invokeLLM") = {}
        ELSE /\ Cardinality(C11_ExtractionCalls(r)) = 1
             /\ C11_ExtractionCalls(r) =
                  LLMCallsBy(r, IF intent[r] = "covid" THEN "extractCovidParameters"
                                                       ELSE "extractChurnParameters")
             /\ Cardinality(LLMCallsBy(r, "synthesizeResponse")) =
                  (IF /\ CallsOf(r, "axios.post") # {}
                      /\ prediction[r].t = "obj"
                      /\ "error" \notin DOMAIN prediction[r].f
                     THEN 1 ELSE 0)
             /\ CallsOf(r, "invokeLLM") =
                  C11_ExtractionCalls(r) \cup LLMCallsBy(r, "synthesizeResponse")

\* a churn request has finished with two completion calls, and a covid request
\* whose prediction carries error would finish with one
C11_Witness ==
  \E r \in Reqs :
    /\ pc[r] = "ResponseReady"
    /\ intent[r] = "churn"
    /\ Cardinality(CallsOf(r, "invokeLLM")) = 2
    /\ calls[r][1].by = "extractChurnParameters"
    /\ calls[r][3].by = "synthesizeResponse"

\* the calls of request r that have not returned yet
C12_InFlight(r) == {k \in DOMAIN calls[r] : calls[r][k].outcome.kind = "pending"}

\* C12: the outbound calls of a request are strictly ordered: every call but
\* the last has returned or failed, so at most one is in flight; a POST is
\* the second call, issued after the extraction call has returned, and a
\* synthesis call is the third, issued after the POST has returned.
C12_CallsStrictlyOrdered ==
  \A r \in Reqs :
    /\ \A k \in DOMAIN calls[r] : k < Len(calls[r]) => k \notin C12_InFlight(r)
    /\ Cardinality(C12_InFlight(r)) <= 1
    /\ \A k \in C11_ExtractionCalls(r) : k = 1
    /\ \A k \in CallsOf(r, "axios.post") :
         /\ k = 2
         /\ 1 \in C11_ExtractionCalls(r)
         /\ calls[r][1].outcome.kind \in {"throw", "nocontent", "content"}
    /\ \A k \in LLMCallsBy(r, "synthesizeResponse") :
         /\ k = 3
         /\ 2 \in CallsOf(r, "axios.post")
         /\ calls[r][2].outcome.kind \in {"response", "networkError", "timeout"}

\* the synthesis call is in flight after the extraction call and the POST
\* have both returned
C12_Witness ==
  \E r \in Reqs :
    /\ pc[r] = "Synthesizing"
    /\ Len(calls[r]) = 3
    /\ C12_InFlight(r) = {3}
    /\ calls[r][1].outcome.kind = "content"
    /\ calls[r][2].outcome.kind = "response"

\* the prediction of request r is an object without the key error
C13_NoErrorKey(r) ==
  prediction[r].t = "obj" /\ "error" \notin DOMAIN prediction[r].f

C14_Query ==
  <<"c","u","s","t","o","m","e","r"," ","w","i","t","h"," ","2","4"," ","m","o","n","t","h","s"," ","t","e","n","u","r","e"," ","p","a","y","i","n","g"," ","$","8","5"," ","m","o","n","t","h","l","y">>

\* the number written after the first dollar sign of q
C14_DollarAmount(q) ==
  LET i == Least({k \in 1..Len(q) : q[k] = "$"})
  IN  parseFloat(SubSeq(q, i + 1, DecimalEnd(q, i)))

\* C14: when the completion call fails, the churn fallback gives for
\* "customer with 24 months tenure paying $85 monthly" tenure_months = 24 and
\* monthly_charges = 85.0, and for every query with a dollar amount the
\* monthly_charges is that amount.
C14_FallbackReadsDollarAmount ==
  \A r \in Reqs :
    (/\ pc[r] = "ParametersExtracted"
     /\ intent[r] = "churn"
     /\ calls[r][1].outcome.kind = "throw") =>
      /\ query[r] = C14_Query =>
           parameters[r] = [t |-> "obj",
                            f |-> [tenure_months |-> [t |-> "num", m |-> 24, e |-> 0],
                                   monthly_charges |-> [t |-> "num", m |-> 85, e |-> 0]]]
      /\ (\E k \in 1..Len(query[r]) - 1 : query[r][k] = "$" /\ IsDigit(query[r][k + 1])) =>
           /\ parameters[r].t = "obj"
           /\ "monthly_charges" \in DOMAIN parameters[r].f
           /\ parameters[r].f["monthly_charges"] = C14_DollarAmount(query[r])

\* alias k stands at offset i of q as a whole word, in any letter case
C15_WholeWordAt(q, k, i) ==
  LET n == Len(countryAliases[k])
  IN  /\ i + n <= Len(q)
      /\ toLowerCase(SubSeq(q, i + 1, i + n)) = toLowerCase(countryAliases[k])
      /\ i = 0 \/ ~IsWordChar(q[i])
      /\ i + n = Len(q) \/ ~IsWordChar(q[i + n + 1])

\* C15: when the completion call fails, extractCovidParameters returns
\* exactly {country_name: the leftmost whole-word occurrence of an alias, as
\* the query writes it}, "USA" for "COVID in USA", and the empty ParameterSet
\* when no alias occurs.
C15_CountryFallback ==
  \A r \in Reqs :
    (/\ pc[r] = "ParametersExtracted"
     /\ intent[r] = "covid"
     /\ calls[r][1].outcome.kind = "throw") =>
      LET q == query[r]
          occ == {o \in (0..Len(q)) \X (1..Len(countryAliases)) :
                    C15_WholeWordAt(q, o[2], o[1])}
      IN  /\ parameters[r].t = "obj"
          /\ IF occ = {}
               THEN DOMAIN parameters[r].f = {}
               ELSE /\ DOMAIN parameters[r].f = {"country_name"}
                    /\ \E o \in occ :
                         /\ \A p \in occ : o[1] <= p[1]
                         /\ parameters[r].f["country_name"] =
                              [t |-> "str",
                               s |-> SubSeq(q, o[1] + 1, o[1] + Len(countryAliases[o[2]]))]
          /\ q = <<"C","O","V","I","D"," ","i","n"," ","U","S","A">> =>
               parameters[r].f["country_name"] = [t |-> "str", s |-> <<"U","S","A">>]

\* the fallback has taken "india", the leftmost alias of a query that also
\* names the UK
C15_Witness ==
  \E r \in Reqs :
    /\ pc[r] = "ParametersExtracted"
    /\ calls[r][1].outcome.kind = "throw"
    /\ query[r] = <<"c","o","v","i","d"," ","c","a","s","e","s",":"," ","i","n","d","i","a",","," ","t","h","e","n"," ","U","K">>
    /\ parameters[r] = [t |-> "obj",
                        f |-> [country_name |-> [t |-> "str", s |-> <<"i","n","d","i","a">>]]]

\* what the Extractor of intent i returns for query q when the completion
\* service replies with reply
C16_Extract(i, q, reply) ==
  IF i = "covid" THEN extractCovidParameters(q, reply)
                 ELSE extractChurnParameters(q, reply)

\* replies that carry no data: a reply that is no JSON, and the object {}
C16_Unparsable == [kind |-> "content", content |-> <<"S","o","r","r","y">>]

C16_EmptyObject == [kind |-> "content", content |-> <<"{","}">>]

\* C16: for the query and intent of every request, the ParameterSet the
\* Extractor returns for an unparsable reply equals the one it returns when
\* the call throws and the one it returns for the reply {}; each is an
\* object (nothing is raised), and it is what the request holds after such
\* a reply.
C16_NoDataRepliesAgree ==
  \A r \in Reqs :
    pc[r] = "ParametersExtracted" =>
      LET thrown == C16_Extract(intent[r], query[r], [kind |-> "throw"])
          o == calls[r][1].outcome
      IN  /\ thrown.t = "obj"
          /\ C16_Extract(intent[r], query[r], C16_Unparsable) = thrown
          /\ C16_Extract(intent[r], query[r], C16_EmptyObject) = thrown
          /\ (o.kind = "throw" \/ o = C16_Unparsable \/ o = C16_EmptyObject) =>
               parameters[r] = thrown

\* a churn request whose reply was no JSON holds the tenure and the charges
\* that the patterns found in the query
C16_Witness ==
  \E r \in Reqs :
    /\ pc[r] = "ParametersExtracted"
    /\ intent[r] = "churn"
    /\ calls[r][1].outcome = C16_Unparsable
    /\ parameters[r].t = "obj"
    /\ DOMAIN parameters[r].f = {"tenure_months", "monthly_charges"}

\* the fields that the regex fallback of intent i may fill
C17_FallbackFields(i) ==
  IF i = "covid" THEN {"country_name"} ELSE {"tenure_months", "monthly_charges"}

\* v is a value of the completion result, not a mark of a missing field (the
\* prompt asks for null, and line 118 reads the text 'null' the same way)
C17_IsValue(v) ==
  /\ v.t \notin {"null", "undefined"}
  /\ ~(v.t = "str" /\ v.s = <<"n","u","l","l">>)

\* C17: the regex fallback only fills a field the completion result lacks:
\* when the reply parses to an object, a country_name, tenure_months or
\* monthly_charges value it holds (the number 0 included) is in the returned
\* ParameterSet unchanged, every other field of it is untouched, and only
\* fallback fields are added.
C17_FallbackOnlyFillsMissing ==
  \A r \in Reqs :
    (pc[r] = "ParametersExtracted" /\ calls[r][1].outcome.kind = "content") =>
      LET parsed == JSONParse(cleanJsonResponse(calls[r][1].outcome.content))
      IN  (parsed.ok /\ parsed.v.t = "obj") =>
            /\ parameters[r].t = "obj"
            /\ DOMAIN parsed.v.f \subseteq DOMAIN parameters[r].f
            /\ DOMAIN parameters[r].f \subseteq
                 DOMAIN parsed.v.f \cup C17_FallbackFields(intent[r])
            /\ \A k \in DOMAIN parsed.v.f :
                 (k \notin C17_FallbackFields(intent[r]) \/ C17_IsValue(parsed.v.f[k]))
                   => parameters[r].f[k] = parsed.v.f[k]

\* the confidence of request r is exactly 1.0
C18_IsOne(r) == confidence[r].n = confidence[r].d

\* C18 as it is stated: the confidence is never exactly 1.0 outside the
\* churn-only case (churn count > 0, covid count = 0), and in that case it
\* reaches exactly 1.0, at its extreme of all churn keywords.
C18_OneOnlyInChurnOnly ==
  \A r \in Reqs :
    pc[r] = "Classified" =>
      LET c == C3_Count(covidKeywords, query[r])
          h == C3_Count(churnKeywords, query[r])
      IN  /\ ~(h > 0 /\ c = 0) => ~C18_IsOne(r)
          /\ (h = Len(churnKeywords) /\ c = 0) => C18_IsOne(r)

\* C18: the confidence returned by classifyIntent is below 1.0 for every
\* pair of counts, the churn-only case included, where it is h/(h+1) and at
\* most 15/16.
C18_ConfidenceBelowOne ==
  \A r \in Reqs :
    pc[r] = "Classified" =>
      LET c == C3_Count(covidKeywords, query[r])
          h == C3_Count(churnKeywords, query[r])
      IN  /\ confidence[r].d > 0
          /\ confidence[r].n < confidence[r].d
          /\ (h > 0 /\ c = 0) =>
               /\ confidence[r].n * (h + 1) = h * confidence[r].d
               /\ 16 * confidence[r].n <= 15 * confidence[r].d

\* the query of all fifteen churn keywords and no covid keyword has been
\* classified churn with confidence 15/16
C18_Witness ==
  \E r \in Reqs :
    /\ pc[r] = "Classified"
    /\ query[r] = KeywordQuery(0, Len(churnKeywords), FALSE)
    /\ intent[r] = "churn"
    /\ confidence[r] = [n |-> 15, d |-> 16]

\* the variables of request r
C19_Locals(r) ==
  <<query[r], pc[r], intent[r], confidence[r], parameters[r], prediction[r],
    returned[r], calls[r]>>

\* a step is a step of one request: it leaves the variables of the other
\* request, and the environment variables, as they are
C19_StepOfOne ==
  /\ \E r \in Reqs : \A o \in Reqs \ {r} : C19_Locals(o)' = C19_Locals(o)
  /\ env' = env

\* what request r holds is what the handler computes from r's own query and
\* the replies to r's own calls (and a reading of the clock), as when r is
\* processed alone
C19_SameAsAlone ==
  \A r \in Reqs :
    LET q == query[r]
        cl == classifyIntent(q)
        log == calls[r]
        extracted == C16_Extract(cl.intent, q, log[1].outcome)
    IN  /\ pc[r] # "Received" =>
             intent[r] = cl.intent /\ confidence[r] = cl.confidence
        /\ pc[r] = "ParametersExtracted" => parameters[r] = extracted
        /\ Len(log) >= 2 =>
             \E t \in 0..MaxClock :
               /\ parameters[r] = withDefaults(cl.intent, extracted, t)
               /\ log[2].api = "axios.post"
               /\ log[2].url = postFor(cl.intent, env, parameters[r]).url
               /\ log[2].data = parameters[r]
        /\ pc[r] \in {"PredictionObtained", "Synthesizing", "ResponseReady"} =>
             prediction[r] = predictionOf(cl.intent, log[2].outcome)
        /\ pc[r] = "ResponseReady" =>
             returned[r] =
               finalResponse(IF hasError(prediction[r])
                               THEN errorResponse(prediction[r])
                               ELSE synthesizedText(log[3].outcome),
                             cl.intent, cl.confidence,
                             predictionOf(cl.intent, log[2].outcome))
        /\ pc[r] = "Clarify" =>
             returned[r] = IF log = <<>> THEN clarifyResponse
                           ELSE needMoreResponse(cl.intent, cl.confidence)

\* C19: in every interleaving of two concurrent requests, each request's
\* classification, ParameterSet, endpoint and AgentResponse are those it has
\* when processed alone with the same replies, and every step touches the
\* variables of one request only.
C19_RequestsIndependent == []C19_SameAsAlone /\ [][C19_StepOfOne]_vars

\* a covid request waits for its synthesis while a churn request, accepted
\* with it, waits for its POST
C19_Witness ==
  /\ pc[1] = "Synthesizing"
  /\ pc[2] = "Predicting"
  /\ intent[1] = "covid"
  /\ intent[2] = "churn"
  /\ calls[2][2].url = "http://localhost:8001/predict/churn"

\* the ParameterSet request r gets when the completion service replies with
\* the bare text body
C20_Unfenced(r, body) ==
  C16_Extract(intent[r], query[r], [kind |-> "content", content |-> body])

\* C20: a reply that is a JSON object in a code fence (opening marker of
\* three grave accents, with or without the tag json, closing marker of
\* three grave accents), with any white space around the markers and the
\* object, gives the ParameterSet of the same object sent bare; a reply
\* without a fence reaches the parser as it is, trimmed.
C20_FenceIsTransparent ==
  \A r \in Reqs :
    pc[r] = "ParametersExtracted" =>
      LET content == calls[r][1].outcome.content
      IN  /\ \A body \in ObjectTexts :
               /\ (\E a, b, c, d \in Pads, opening \in {fence, fenceJson} :
                      content = a \o opening \o b \o body \o c \o fence \o d)
                    => /\ parameters[r] = C20_Unfenced(r, body)
                       /\ cleanJsonResponse(content) = body
               /\ (\E a, d \in Pads : content = a \o body \o d)
                    => /\ parameters[r] = C20_Unfenced(r, body)
                       /\ cleanJsonResponse(content) = body
          /\ ~startsWith(trim(content), fence) =>
               cleanJsonResponse(content) = trim(content)

\* the object {"deaths":5} came in a fence without a tag, with white space
\* on all sides, and the request holds deaths = 5
C20_Witness ==
  \E r \in Reqs :
    /\ pc[r] = "ParametersExtracted"
    /\ calls[r][1].outcome.content =
         <<" ", "\n">> \o fence \o <<"\n">> \o JSONTable[5].text \o <<" ", "\n">> \o fence \o <<"\n">>
    /\ parameters[r] = [t |-> "obj", f |-> [deaths |-> [t |-> "num", m |-> 5, e |-> 0]]]

\* C21: for every pair of keyword counts, a covid or churn result of
\* classifyIntent has a confidence of at least 1/3, and of at least 1/2 when
\* it is covid, so confidence < 0.3 is false for it; a request gets the
\* unknown clarification exactly when its query holds no keyword of either
\* list.
C21_GuardOnlyForNoKeyword ==
  \A r \in Reqs :
    pc[r] \in {"Classified", "Clarify", "Extracting"} =>
      LET c == C3_Count(covidKeywords, query[r])
          h == C3_Count(churnKeywords, query[r])
      IN  /\ intent[r] \in {"covid", "churn"} =>
               /\ 3 * confidence[r].n >= confidence[r].d
               /\ ~(10 * confidence[r].n < 3 * confidence[r].d)
          /\ intent[r] = "covid" => 2 * confidence[r].n >= confidence[r].d
          /\ pc[r] = "Clarify" => c = 0 /\ h = 0 /\ returned[r] = C2_Clarification
          /\ pc[r] = "Extracting" => c > 0 \/ h > 0

\* the query of one keyword of each list was classified churn with the
\* lowest confidence there is, 1/3, and has gone on to extraction
C21_Witness ==
  \E r \in Reqs :
    /\ pc[r] = "Extracting"
    /\ query[r] = KeywordQuery(1, 1, FALSE)
    /\ intent[r] = "churn"
    /\ confidence[r] = [n |-> 1, d |-> 3]

\* the offset of the first decimal digit of q, for a q that has one
C22_FirstDigit(q) == Least({k \in 1..Len(q) : IsDigit(q[k])}) - 1

\* the first decimal number of q: digits, with a fraction when one follows
C22_FirstNumber(q) ==
  parseFloat(SubSeq(q, C22_FirstDigit(q) + 1, DecimalEnd(q, C22_FirstDigit(q))))

\* the completion call of r failed, or gave an object without a value
\* under key
C22_Lacks(r, key) ==
  LET o == calls[r][1].outcome
  IN  \/ o.kind = "throw"
      \/ /\ o.kind = "content"
         /\ LET parsed == JSONParse(cleanJsonResponse(o.content))
            IN  /\ parsed.ok
                /\ parsed.v.t = "obj"
                /\ \/ key \notin DOMAIN parsed.v.f
                   \/ parsed.v.f[key].t = "null"

\* request r, on the churn branch, has its parameters, the query holds a
\* digit, and the completion service gave no monthly_charges
C22_ChargesFromQuery(r) ==
  /\ pc[r] = "ParametersExtracted"
  /\ intent[r] = "churn"
  /\ \E k \in 1..Len(query[r]) : IsDigit(query[r][k])
  /\ C22_Lacks(r, "monthly_charges")

\* the first number of the query of r is followed by a month unit
C22_TenureIsFirstNumber(r) == TenureAt(query[r], C22_FirstDigit(query[r]))

\* monthly_charges of r is the first decimal number of the query
C22_ChargesIsFirstNumber(r) ==
  /\ parameters[r].t = "obj"
  /\ "monthly_charges" \in DOMAIN parameters[r].f
  /\ parameters[r].f["monthly_charges"] = C22_FirstNumber(query[r])

C23_FailedAndChecked(r) ==
  /\ intent[r] = "churn"
  /\ pc[r] \in {"Clarify", "Predicting", "PredictionObtained", "Synthesizing",
                "ResponseReady", "Threw"}
  /\ calls[r] # <<>>
  /\ calls[r][1].outcome.kind = "throw"

\* C23: on the churn branch with a failed completion call, the request ends
\* in Clarify with the "need more information" message exactly when the
\* query holds no decimal digit; a query that holds a digit is posted to the
\* churn endpoint with a monthly_charges parsed from its first digit run and
\* a generated customer_id.
C23_ClarifyIffNoDigit ==
  \A r \in Reqs :
    C23_FailedAndChecked(r) =>
      LET digit == \E k \in 1..Len(query[r]) : IsDigit(query[r][k])
      IN  /\ (pc[r] = "Clarify") <=> ~digit
          /\ ~digit =>
               /\ Len(calls[r]) = 1
               /\ returned[r].response = "I need at least some information about the customer to assess churn risk. Please provide details like tenure, monthly charges, or contract type."
               /\ returned[r].intent = "churn"
          /\ digit =>
               /\ Len(calls[r]) >= 2
               /\ calls[r][2].api = "axios.post"
               /\ calls[r][2].url = "http://localhost:8001/predict/churn"
               /\ LET data == calls[r][2].data
                  IN  /\ data.t = "obj"
                      /\ {"monthly_charges", "customer_id"} \subseteq DOMAIN data.f
                      /\ data.f["monthly_charges"] = C22_FirstNumber(query[r])
                      /\ data.f["customer_id"].t = "str"
                      /\ \E t \in 0..MaxClock :
                           data.f["customer_id"].s =
                             <<"G","U","E","S","T","_">> \o NumberChars(t)

\* "is customer C42 leaving" was posted with monthly_charges = 42 after the
\* completion call failed
C23_Witness ==
  \E r \in Reqs :
    /\ C23_FailedAndChecked(r)
    /\ pc[r] = "Predicting"
    /\ query[r] = <<"i","s"," ","c","u","s","t","o","m","e","r"," ","C","4","2"," ","l","e","a","v","i","n","g">>
    /\ DOMAIN calls[r][2].data.f = {"monthly_charges", "customer_id"}
    /\ calls[r][2].data.f["monthly_charges"] = [t |-> "num", m |-> 42, e |-> 0]

\* request r has posted to the churn service a ParameterSet whose
\* customer_id the handler generated (line 328)
C24_PostedGenerated(r) ==
  /\ intent[r] = "churn"
  /\ Len(calls[r]) >= 2
  /\ calls[r][2].data.f["customer_id"].t = "str"
  /\ Len(calls[r][2].data.f["customer_id"].s) > 6
  /\ SubSeq(calls[r][2].data.f["customer_id"].s, 1, 6) = <<"G","U","E","S","T","_">>

\* C24: two different churn requests whose extracted ParameterSets lack
\* customer_id are posted with different generated customer_id values, also
\* when they are processed together and read the same clock value.
C24_GeneratedIdsDiffer ==
  \A r1, r2 \in Reqs :
    (r1 # r2 /\ C24_PostedGenerated(r1) /\ C24_PostedGenerated(r2)) =>
      calls[r1][2].data.f["customer_id"] # calls[r2][2].data.f["customer_id"]

\* C25: for every query and every reply to the extraction prompt that is a
\* JSON object, if the orchestrator without fallback posts to the Gateway
\* then the orchestrator with fallback posts too, to the same endpoint, a
\* ParameterSet that holds every non-null field of the other's with the
\* same value.
C25_FallbackAcceptsAtLeast ==
  \A r \in Reqs :
    (/\ pc[r] \in {"Clarify", "Threw", "Predicting", "PredictionObtained",
                   "Synthesizing", "ResponseReady"}
     /\ calls[r] # <<>>
     /\ calls[r][1].outcome.kind = "content") =>
      LET reply == calls[r][1].outcome
          parsed == JSONParse(cleanJsonResponse(reply.content))
          old == stepNoFallback(classifyIntent(query[r]).intent, env, reply)
      IN  (parsed.ok /\ parsed.v.t = "obj" /\ old.kind = "post") =>
            /\ Len(calls[r]) >= 2
            /\ calls[r][2].api = "axios.post"
            /\ calls[r][2].url = old.call.url
            /\ intent[r] = classifyIntent(query[r]).intent
            /\ \A k \in DOMAIN old.call.data.f :
                 C17_IsValue(old.call.data.f[k]) =>
                   /\ k \in DOMAIN calls[r][2].data.f
                   /\ calls[r][2].data.f[k] = old.call.data.f[k]

\* the messages appended since the greeting, as their roles
C26_Roles == [k \in 1..Len(ui.messages) |-> ui.messages[k].role]

\* the step is a submit of a non-blank input
C26_IsSend == ui'.sent = ui.sent + 1

\* the step ends a mutation
C26_IsEnd == Len(ui'.inflight) < Len(ui.inflight)

\* user and assistant messages alternate after the greeting, and the last
\* one is a user message exactly while a request is in flight
C26_Alternates ==
  /\ Len(ui.messages) = 1 + 2 * ui.sent - Len(ui.inflight)
  /\ \A k \in 1..Len(ui.messages) :
       ui.messages[k].role = (IF k % 2 = 1 THEN "assistant" ELSE "user")
  /\ ui.isLoading <=> (ui.inflight # <<>>)
  /\ Len(ui.inflight) <= 1

\* what each step does to the page
C26_Step ==
  /\ SubSeq(ui'.messages, 1, Len(ui.messages)) = ui.messages
  /\ IF C26_IsSend
       THEN /\ ~isBlank(ui.input)
            /\ ui'.messages = Append(ui.messages, [role |-> "user", content |-> ui.input])
            /\ ui'.inflight = Append(ui.inflight, ui.input)
       ELSE IF C26_IsEnd
         THEN /\ Len(ui'.messages) = Len(ui.messages) + 1
              /\ ui'.messages[Len(ui'.messages)].role = "assistant"
              /\ ui'.messages[Len(ui'.messages)].content =
                   (IF ui'.outcome = "rejected" THEN apology
                    ELSE CHOOSE response \in ChatResponses : TRUE)
              /\ ~ui'.isLoading
         ELSE /\ ui'.messages = ui.messages
              /\ ui'.inflight = ui.inflight
  /\ (ui'.handled = ui.handled + 1 /\ isBlank(ui.input)) =>
       /\ ui'.messages = ui.messages
       /\ ui'.inflight = ui.inflight
       /\ ui'.sent = ui.sent

\* C26: every submit of a non-blank input appends one user message and the
\* end of its mutation one assistant message (the response, or the apology
\* when it rejected), earlier messages are kept in place, isLoading is
\* false again after either end, a blank input appends nothing and sends
\* nothing, and at most one request is in flight
C26_OneExchangePerSubmit == []C26_Alternates /\ [][C26_Step]_vars

\* a whole exchange that ended in the apology, then a second one that
\* ended in the response, with a blank submit handled in between
C26_Witness ==
  /\ Len(ui.messages) = 5
  /\ ui.messages[3].content = apology
  /\ ui.messages[5].content \in ChatResponses
  /\ ui.handled = 3
  /\ ui.sent = 2
  /\ ~ui.isLoading

\* services were started in the fixed order, each after the one before it
\* passed its check, and a passed check was a check that succeeds
C27_InOrder ==
  /\ sh.started = SubSeq(Services, 1, Len(sh.started))
  /\ \A k \in 2..Len(sh.started) : Services[k - 1] \in sh.passed
  /\ \A k \in DOMAIN Services :
       Services[k] \in sh.passed => (k <= Len(sh.started) /\ hasCheck(sh.script, Services[k]))

\* after a failed check the script has exited with status 1, the failing
\* service is the last one started, and no process it started is running
C27_FailedStartup ==
  sh.failed # "none" =>
    /\ sh.pc = "Exited"
    /\ sh.status = 1
    /\ sh.started # <<>>
    /\ sh.started[Len(sh.started)] = sh.failed
    /\ \A k \in DOMAIN Services : ~alive(sh.proc[Services[k]])

\* a check passes only a service that satisfies it and fails every other
\* one, and an exited script starts nothing
C27_Step ==
  /\ (sh'.passed # sh.passed \/ sh'.failed # sh.failed) =>
       IF passesCheck(sh.script, sh.proc[Services[sh.next]])
         THEN sh'.passed = sh.passed \cup {Services[sh.next]} /\ sh'.failed = "none"
         ELSE sh'.failed = Services[sh.next] /\ sh'.passed = sh.passed
  /\ sh.pc = "Exited" =>
       /\ sh'.pc = "Exited"
       /\ sh'.started = sh.started
       /\ sh'.status = sh.status

\* C27: both scripts start the COVID service, the Churn service and the web
\* application in that order, each after the previous one passed its
\* start-up check; a failed check ends the script with status 1 before any
\* later service is started and with every started process killed, so no
\* service is left running
C27_FailedStartupLeavesNothing ==
  /\ [](C27_InOrder /\ C27_FailedStartup)
  /\ [][C27_Step]_vars

\* start-local.sh found the Churn service running but not answering, and
\* killed it and the COVID service that had passed its check
C27_Witness ==
  /\ sh.script = "start-local"
  /\ sh.failed = "churn"
  /\ sh.passed = {"covid"}
  /\ sh.proc["covid"] = "killed"
  /\ sh.proc["churn"] = "killed"
  /\ sh.status = 1

=============================================================================
